---- MODULE Spec2Model ----
(***************************************************************************)
(* Admission, queueing and job lifecycle of the scan backend.              *)
(*                                                                         *)
(* The persisted store (table scans), the Celery broker, the Redis lanes   *)
(* and status records of QueueService, and the sliding-window store of     *)
(* RateLimitMiddleware are the state.  Handlers that run in one process    *)
(* while workers run in another are split at the points where another      *)
(* process can observe the store: every commit and every Redis command is  *)
(* its own step of the handler or is the last effect of a step.            *)
(*                                                                         *)
(* create_scan passes scan_data.execution_mode through to                  *)
(* check_scan_access, process_scan, _process_scan_async and enqueue_scan;  *)
(* none of them declares or reads it.  The model follows the control flow  *)
(* of these functions and does not carry that argument.                    *)
(***************************************************************************)
EXTENDS Integers, Sequences, FiniteSets, TLC

(***************************************************************************)
(* Bounds of the model.                                                    *)
(***************************************************************************)
\* number of scans created in a run of Spec
MaxScans == 2
\* last value of the clock (seconds) in a run of SpecRetry
MaxTime == 2
\* number of times a worker is lost while it runs a task
MaxLost == 1
\* number of task runs that workers start in a run of Spec
MaxRuns == 1
\* number of engine runs that fail in a run of Spec
MaxFails == 1
\* number of times the Redis of QueueService stops answering
MaxOutages == 1
\* settings.SCAN_LIMIT_FREE_TIER (config.py:64 sets 10), scaled to the model
ScanLimitFreeTier == 2
\* number of enqueue_scan calls in a run of SpecQueue
MaxEnq == 3
\* RATE_LIMITS (rate_limit.py:36-40 sets 100 per 3600 s and 10000 per
\* 2592000 s), scaled to the model
FreeLimit == 2
FreeWindow == 3
PremiumLimit == 3
PremiumWindow == 3
\* seconds the clock shows after the start of a day in the runs over days
MaxSeconds == 1
\* quota checks in a run of SpecRace
MaxRaceChecks == 4
\* create_scan calls that run side by side in a run of SpecAdmission
MaxCreators == 2
\* workers that call dequeue_scan in a run of SpecWorkers
MaxWorkers == 2
\* requests in a run of SpecRequest
MaxRequests == 3
\* quota checks in a run of SpecReset
MaxResetChecks == 5
\* vulnerabilities in the result of one engine run of SpecResult
MaxVulns == 2
\* server processes that run the middleware against one Redis
MaxServers == 2
\* last value of the clock and number of quota checks in a run of SpecRate
MaxRateTime == 3
MaxChecks == 3

(***************************************************************************)
(* Program constants.                                                      *)
(***************************************************************************)
\* ScanTask.retry_kwargs = {"max_retries": 3}
MaxRetries == 3
\* timedelta(days=1) of check_scan_limit, in seconds
DaySeconds == 86400
\* a nullable DateTime / Integer column holding NULL
NoTime == -1
\* scans_per_day = None
Unlimited == -1

\* the ids of the rows of a run, and the ids a status record can carry
ScanIds == 1..MaxScans
JobIds == 1..(IF MaxEnq > MaxScans THEN MaxEnq ELSE MaxScans)

Tiers == {"free", "premium", "enterprise"}
Users == {"alice", "bob", "root"}
\* the users of the runs that look at every tier: carol is an enterprise user
Accounts == Users \cup {"carol"}
\* the tier column of each user; root is a free account with an owner e-mail
InitialTier(u) ==
    CASE u = "alice" -> "free"
      [] u = "bob" -> "premium"
      [] u = "carol" -> "enterprise"
      [] OTHER -> "free"
is_owner_email(u) == u = "root"

\* the scan modes a request of the model asks for
ScanModes == {"common", "full"}
AllScanModes == {"common", "fast", "full", "stealth", "aggressive", "custom"}

ScanStatus == {"queued", "running", "completed", "failed", "cancelled"}
JobStatusValues == {"queued", "processing", "completed", "failed", "cancelled"}
NoStatus == "absent"

VARIABLES
    now,        \* the clock, datetime.utcnow() in seconds
    env,        \* settings.ENVIRONMENT
    redisUp,    \* whether the Redis of QueueService answers
    scans,      \* the table scans: id -> row
    nextId,     \* the next scan id the store hands out
    creating,   \* the create_scan call of each scan: its place and its user
    task,       \* the process_scan task of each scan
    high,       \* Redis list scan_queue:high, head first
    normal,     \* Redis list scan_queue:normal, head first
    jobStatus,  \* Redis keys scan_status:<id>
    response,   \* the answer of the call that has just ended, until it is sent
    hist,       \* observations of the run, one record per scan
    budget,     \* what the environment of the run may still do
    qlog,       \* what was enqueued and dequeued through QueueService
    dequeuer,   \* the dequeue_scan call each worker is in the middle of
    windows,    \* Redis sorted sets rate_limit:<user>:<tier>
    rlog,       \* the checks that the count admitted, per key and second
    rlLast,     \* the answer of the last quota check
    redis_client, \* whether the middleware holds a Redis client (not None)
    redisCalls, \* the Redis commands the last request issued, in order
    reply,      \* what dispatch answered to the last request
    checker,    \* the quota check each server process is in the middle of
    tierCheck,  \* the last TierCheckResponse of TierService, with its inputs
    creators,   \* the create_scan calls that run side by side
    admitted,   \* the user and time of every create that was admitted
    retention,  \* what the last call of RetentionService returned
    cleanup,    \* the cleanup_all_expired_scans call: its place in the loop
    request,    \* the HTTP request on its way through the middleware stack
    tiers       \* the column tier of the table users

vars == <<now, env, redisUp, scans, nextId, creating, task, high, normal,
          jobStatus, response, hist, budget, qlog, dequeuer, windows, rlog, rlLast,
          redis_client, redisCalls, reply, checker, tierCheck, creators,
          admitted, retention,
          cleanup, request, tiers>>

\* the variables of the queue log and of the rate limiter
queueVars == <<qlog, dequeuer>>
rateVars == <<windows, rlog, rlLast, redis_client, redisCalls, reply,
              checker>>
\* the variables of the tier checks and of RetentionService
tierVars == <<tierCheck, creators, admitted>>
retVars == <<retention, cleanup>>
\* the request in the middleware stack, and the table users
reqVars == <<request>>
userVars == <<tiers>>

\* user.tier, as the table users has it now
UserTier(u) == IF u \in Accounts THEN tiers[u] ELSE "free"
\* the variables of the scan table, its handlers and its workers
scanVars == <<env, scans, creating, task, response, hist>>

(***************************************************************************)
(* TierService                                                             *)
(***************************************************************************)
allowed_scan_modes(tier) ==
    CASE tier = "free" -> {"common", "fast"}
      [] tier = "premium" -> {"common", "fast", "full", "stealth", "aggressive"}
      [] OTHER -> {"common", "fast", "full", "stealth", "aggressive", "custom"}

scans_per_day(tier) == IF tier = "free" THEN ScanLimitFreeTier ELSE Unlimited

\* the text of a reason or of an HTTPException detail, by its parts
Reason(text, word, tier, modes, limit) ==
    [text |-> text, word |-> word, tier |-> tier, modes |-> modes,
     limit |-> limit]
NoReason == Reason("", "", "", {}, 0)

\* TierCheckResponse of check_scan_mode
check_scan_mode(u, mode) ==
    IF is_owner_email(u)
    THEN [allowed |-> TRUE, reason |-> NoReason]
    ELSE IF mode \in allowed_scan_modes(UserTier(u))
         THEN [allowed |-> TRUE, reason |-> NoReason]
         ELSE [allowed |-> FALSE,
               reason |-> Reason("Scan mode not allowed for tier", mode,
                                 UserTier(u),
                                 allowed_scan_modes(UserTier(u)), 0)]

\* a count that leaves out the condition on created_at
RecentScanCountAnyAge(u) ==
    Cardinality({s \in ScanIds : scans[s].exists /\ scans[s].user_id = u})

\* select count(Scan.id) where user_id = u and created_at >= yesterday
RecentScanCount(u) ==
    Cardinality({s \in ScanIds : /\ scans[s].exists
                                 /\ scans[s].user_id = u
                                 /\ scans[s].created_at >= now - DaySeconds})

\* TierCheckResponse of check_scan_limit
check_scan_limit(u) ==
    IF is_owner_email(u)
    THEN [allowed |-> TRUE, reason |-> NoReason]
    ELSE IF scans_per_day(UserTier(u)) = Unlimited
         THEN [allowed |-> TRUE, reason |-> NoReason]
         ELSE IF RecentScanCount(u) < scans_per_day(UserTier(u))
              THEN [allowed |-> TRUE, reason |-> NoReason]
              ELSE [allowed |-> FALSE,
                    reason |-> Reason("Daily scan limit reached", "", "", {},
                                      scans_per_day(UserTier(u)))]

\* lines 113-120 of check_scan_limit: the count query on the table scans is
\* executed for a user who is no owner and whose tier has a limit
check_scan_limit_queries(u) ==
    IF is_owner_email(u) \/ scans_per_day(UserTier(u)) = Unlimited
    THEN 0 ELSE 1

\* an access check that makes the limit check first
check_scan_access_limit_first(u, mode) ==
    LET limit_check == check_scan_limit(u)
        mode_check == check_scan_mode(u, mode)
    IN  [answer |-> IF ~limit_check.allowed THEN limit_check ELSE mode_check,
         queries |-> check_scan_limit_queries(u)]

\* the run of check_scan_access: the mode check first; the limit check, and
\* its query, only when the mode is allowed
check_scan_access_run(u, mode) ==
    LET mode_check == check_scan_mode(u, mode) IN
    IF ~mode_check.allowed
    THEN [answer |-> mode_check, queries |-> 0]
    ELSE [answer |-> check_scan_limit(u),
          queries |-> check_scan_limit_queries(u)]

\* TierCheckResponse of check_scan_access
check_scan_access(u, mode) == check_scan_access_run(u, mode).answer

(***************************************************************************)
(* The result of the engine                                                *)
(***************************************************************************)
\* the severity of a reported vulnerability: the four labels the worker
\* counts, a label it does not count, and "none" for a vulnerability that has
\* no severity (v.get("severity") is None)
SeverityLabels == {"critical", "high", "medium", "low", "info", "none"}

\* result.get("vulnerabilities", []) of the results the engine may return:
\* the severity of each reported vulnerability, in order
EngineResults(n) == UNION {[1..k -> SeverityLabels] : k \in 0..n}

\* a count that takes every vulnerability that has a severity
SeverityCountAnyLabel(vulnerabilities, label) ==
    Cardinality({i \in DOMAIN vulnerabilities : vulnerabilities[i] # "none"})

\* sum(1 for v in vulnerabilities if v.get("severity") == label)
SeverityCount(vulnerabilities, label) ==
    Cardinality({i \in DOMAIN vulnerabilities : vulnerabilities[i] = label})

\* report_json and report_text of a row that has no report (NULL)
NoReportJson == [null |-> TRUE, vulnerabilities |-> <<>>]
NoReportText ==
    [null |-> TRUE, critical |-> 0, high |-> 0, medium |-> 0, low |-> 0,
     total |-> 0]

\* json.dumps(result, indent=2)
report_json_of(vulnerabilities) ==
    [null |-> FALSE, vulnerabilities |-> vulnerabilities]

\* _generate_text_report: the section VULNERABILITY COUNTS of the report
_generate_text_report(vulnerabilities) ==
    [null |-> FALSE,
     critical |-> SeverityCount(vulnerabilities, "critical"),
     high |-> SeverityCount(vulnerabilities, "high"),
     medium |-> SeverityCount(vulnerabilities, "medium"),
     low |-> SeverityCount(vulnerabilities, "low"),
     total |-> Len(vulnerabilities)]

(***************************************************************************)
(* The table scans                                                         *)
(***************************************************************************)
NoScan ==
    [exists |-> FALSE, user_id |-> "nobody",
     status |-> "queued", created_at |-> NoTime, started_at |-> NoTime,
     completed_at |-> NoTime, duration_seconds |-> NoTime,
     error_message |-> FALSE,
     vulnerabilities_found |-> 0, critical_count |-> 0, high_count |-> 0,
     medium_count |-> 0, low_count |-> 0,
     report_json |-> NoReportJson, report_text |-> NoReportText]

\* a row that is added with status='running'
NewScanRunning(u) ==
    [exists |-> TRUE, user_id |-> u,
     status |-> "running", created_at |-> now, started_at |-> NoTime,
     completed_at |-> NoTime, duration_seconds |-> NoTime,
     error_message |-> FALSE,
     vulnerabilities_found |-> 0, critical_count |-> 0, high_count |-> 0,
     medium_count |-> 0, low_count |-> 0,
     report_json |-> NoReportJson, report_text |-> NoReportText]

\* Scan(user_id, target, scan_mode, execution_mode, status='queued'); target
\* and the two modes are payload that no handler of the model reads
NewScan(u) ==
    [exists |-> TRUE, user_id |-> u,
     status |-> "queued", created_at |-> now, started_at |-> NoTime,
     completed_at |-> NoTime, duration_seconds |-> NoTime,
     error_message |-> FALSE,
     vulnerabilities_found |-> 0, critical_count |-> 0, high_count |-> 0,
     medium_count |-> 0, low_count |-> 0,
     report_json |-> NoReportJson, report_text |-> NoReportText]

\* error: the exception the run is handling, by where it was raised
NoTask == [pc |-> "none", kind |-> "celery", retries |-> 0,
           start_time |-> NoTime, error |-> "none"]

\* invoked: the engine was invoked for the scan; attempts: how each finished
\* run of the task ended; firstStart: the clock read by the first run;
\* cancelledQueued: cancel_scan found the scan queued
NoHist == [invoked |-> FALSE, attempts |-> <<>>, firstStart |-> NoTime,
           cancelledQueued |-> FALSE]

NoResponse == [op |-> "none", user |-> "nobody", scan |-> 0, code |-> 0,
         detail |-> NoReason]

\* enq: the id and lane of every enqueue_scan, in call order; deq: the ids
\* dequeue_scan returned, in call order; mixed: an enqueue or a clear came
\* after a dequeue
NoLog == [enq |-> <<>>, deq |-> <<>>, mixed |-> FALSE]

\* the keys of the window store: rate_limit:<user_id>:<user_tier>
Subjects == {"alice", "bob"}
Keys == Subjects \X Tiers
RateTimes == 0..MaxRateTime

NoCheck == [key |-> <<"nobody", "free">>, time |-> 0, allowed |-> TRUE,
            remaining |-> 0, reset_time |-> 0]

\* the three X-RateLimit headers of a response, or their absence
NoHeaders == [present |-> FALSE, limit |-> 0, remaining |-> 0, reset |-> 0]

\* no request has been dispatched yet
NoReply == [user |-> "nobody", tier |-> "free", code |-> 0, checked |-> FALSE,
            headers |-> NoHeaders]

\* the requests that call create_scan side by side, and one that is in no
\* call
Creators == 1..MaxCreators
NoCreator == [pc |-> "idle", user |-> "nobody", allowed |-> FALSE]

\* the workers that call dequeue_scan, and a worker that is in no call;
\* result 0 is None
Workers == 1..MaxWorkers
NoDequeue == [pc |-> "idle", result |-> 0]

\* the server processes that share the Redis of the rate limiter
Servers == 1..MaxServers

\* a server process that is in no quota check
NoChecker ==
    [pc |-> "idle", key |-> <<"nobody", "free">>, now |-> 0,
     current_count |-> 0, answer |-> NoCheck]

\* no request is in the middleware stack; request.state has no attribute yet
\* (getattr gives None, and "free" for user_tier)
NoRequest ==
    [pc |-> "none", path |-> "", bearer |-> "nobody", user_id |-> "none",
     user_tier |-> "free", user_email |-> "none", checked |-> FALSE]

\* no tier check was made yet
NoTierCheck ==
    [op |-> "none", user |-> "nobody", mode |-> "",
     answer |-> [allowed |-> TRUE, reason |-> NoReason], queries |-> 0]

\* no call of RetentionService has returned yet
NoRetention ==
    [op |-> "none", user |-> "nobody", tier |-> "free", count |-> 0,
     rows |-> <<>>]

\* cleanup_all_expired_scans is not running
NoCleanup ==
    [pc |-> "idle", users |-> <<>>, total_archived |-> 0, aborted |-> FALSE,
     swept |-> {}, raised |-> {}, tier |-> [u \in Accounts |-> "free"]]

\* the state after start-up: an empty table, empty lanes, no task
InitStore ==
    /\ now = 0
    /\ env \in {"development", "production"}
    /\ redisUp = TRUE
    /\ scans = [s \in ScanIds |-> NoScan]
    /\ nextId = 1
    /\ creating = [s \in ScanIds |-> [pc |-> "none", user |-> "nobody"]]
    /\ task = [s \in ScanIds |-> NoTask]
    /\ high = <<>>
    /\ normal = <<>>
    /\ jobStatus = [s \in JobIds |-> NoStatus]
    /\ response = NoResponse
    /\ hist = [s \in ScanIds |-> NoHist]
    /\ qlog = NoLog
    /\ dequeuer = [w \in Workers |-> NoDequeue]
    /\ windows = [k \in Keys |-> {}]
    /\ rlog = [k \in Keys |-> [x \in RateTimes |-> 0]]
    /\ rlLast = NoCheck
    /\ redis_client = TRUE
    /\ redisCalls = <<>>
    /\ reply = NoReply
    /\ checker = [p \in Servers |-> NoChecker]
    /\ tierCheck = NoTierCheck
    /\ creators = [c \in Creators |-> NoCreator]
    /\ admitted = <<>>
    /\ retention = NoRetention
    /\ cleanup = NoCleanup
    /\ request = NoRequest
    /\ tiers = [u \in Accounts |-> InitialTier(u)]

\* creates, cancels and workers over several scans
Init ==
    /\ InitStore
    /\ budget = [scans |-> MaxScans, runs |-> MaxRuns, fails |-> MaxFails,
                 lost |-> 0, outages |-> MaxOutages, time |-> 0,
                 checks |-> 0, vulns |-> 0, requests |-> 0]

\* one scan, its retries and redeliveries, and the clock; the engine may fail
\* once more than Celery retries
InitRetry ==
    /\ InitStore
    /\ env = "production"
    /\ budget = [scans |-> 1, runs |-> MaxRetries + 1 + MaxLost,
                 fails |-> MaxRetries + 2, lost |-> MaxLost, outages |-> 0,
                 time |-> MaxTime, checks |-> 0, vulns |-> 0, requests |-> 0]

\* one scan whose engine reports up to MaxVulns vulnerabilities, and may fail
\* once before it does
InitResult ==
    /\ InitStore
    /\ env = "production"
    /\ budget = [scans |-> 1, runs |-> MaxFails + 1, fails |-> MaxFails,
                 lost |-> 0, outages |-> 0, time |-> MaxTime, checks |-> 0,
                 vulns |-> MaxVulns, requests |-> 0]

(***************************************************************************)
(* QueueService                                                            *)
(***************************************************************************)
\* Redis LPUSH: the new element becomes the head of the list
lpush(list, x) == <<x>> \o list

\* a pop that leaves the element in the list
rpop_rest_keeps(list) == list

\* Redis RPOP: the element at the end of the list, and the list without it
rpop_value(list) == list[Len(list)]
rpop_rest(list) == SubSeq(list, 1, Len(list) - 1)

\* a lane choice that ignores the tier
queue_name_normal(tier) == "normal"

\* QUEUE_HIGH_PRIORITY for premium and enterprise, else QUEUE_NORMAL_PRIORITY
queue_name(tier) ==
    IF tier \in {"premium", "enterprise"} THEN "high" ELSE "normal"

\* job_data of enqueue_scan
job_data(s, u) == [scan_id |-> s, user_id |-> u, enqueued_at |-> now]

\* setex scan_status:<id>
set_job_status(st, s, status) == [st EXCEPT ![s] = status]

(***************************************************************************)
(* ScanService.create_scan                                                 *)
(***************************************************************************)
\* a create_scan that adds and commits the row before it looks at the answer
\* of the access check
CreateScanPersistsFirst(u, mode) ==
    LET access_check == check_scan_access(u, mode) IN
    /\ nextId <= budget.scans
    /\ scans' = [scans EXCEPT ![nextId] = NewScan(u)]
    /\ nextId' = nextId + 1
    /\ IF ~access_check.allowed
       THEN /\ response' = [op |-> "create", user |-> u, scan |-> 0,
                            code |-> 403, detail |-> access_check.reason]
            /\ UNCHANGED creating
       ELSE /\ creating' = [creating EXCEPT ![nextId] =
                                            [pc |-> "persisted", user |-> u]]
            /\ UNCHANGED response
    /\ UNCHANGED <<now, env, redisUp, task, high, normal, jobStatus, hist,
                   budget>>

\* lines 43-65: the access check, then the row is added and committed
CreateScan(u, mode) ==
    LET access_check == check_scan_access(u, mode) IN
    IF ~access_check.allowed
    THEN /\ response' = [op |-> "create", user |-> u, scan |-> 0, code |-> 403,
                       detail |-> access_check.reason]
         /\ UNCHANGED <<now, env, redisUp, scans, nextId, creating, task, high,
                        normal, jobStatus, hist, budget>>
    ELSE /\ nextId <= budget.scans
         /\ scans' = [scans EXCEPT ![nextId] = NewScan(u)]
         /\ creating' = [creating EXCEPT ![nextId] =
                                         [pc |-> "persisted", user |-> u]]
         /\ nextId' = nextId + 1
         /\ UNCHANGED <<now, env, redisUp, task, high, normal, jobStatus,
                        response, hist, budget>>

\* lines 74-87, development: the row goes to running and the scan is started
\* as a task of the event loop; create_scan returns
CreateRunLocal(s) ==
    /\ creating[s].pc = "persisted"
    /\ env = "development"
    /\ scans' = [scans EXCEPT ![s].status = "running", ![s].started_at = now]
    /\ task' = [task EXCEPT ![s] = [NoTask EXCEPT !.pc = "pending",
                                                  !.kind = "local"]]
    /\ creating' = [creating EXCEPT ![s].pc = "returned"]
    /\ response' = [op |-> "create", user |-> creating[s].user, scan |-> s,
                    code |-> 201, detail |-> NoReason]
    /\ UNCHANGED <<now, env, redisUp, nextId, high, normal, jobStatus, hist,
                   budget>>

\* lines 89-96, production: process_scan.delay publishes the task to the
\* Celery broker, which is the Redis of settings.REDIS_URL (celery_app.py 8-13),
\* the one QueueService uses; when it does not answer the publish raises
\* outside any try and create_scan ends with that error, the row committed
CreateDelay(s) ==
    /\ creating[s].pc = "persisted"
    /\ env # "development"
    /\ IF redisUp
       THEN /\ task' = [task EXCEPT ![s] = [NoTask EXCEPT !.pc = "pending",
                                                         !.kind = "celery"]]
            /\ creating' = [creating EXCEPT ![s].pc = "delayed"]
            /\ UNCHANGED response
       ELSE /\ creating' = [creating EXCEPT ![s].pc = "raised"]
            /\ response' = [op |-> "create", user |-> creating[s].user,
                            scan |-> s, code |-> 500,
                            detail |-> Reason("Internal Server Error", "", "",
                                              {}, 0)]
            /\ UNCHANGED task
    /\ UNCHANGED <<now, env, redisUp, scans, nextId, high, normal, jobStatus,
                   hist, budget>>

\* lines 98-112, production: enqueue_scan inside try/except, then return scan
CreateEnqueue(s) ==
    /\ creating[s].pc = "delayed"
    /\ IF redisUp
       THEN /\ IF queue_name(UserTier(scans[s].user_id)) = "high"
               THEN /\ high' = lpush(high, job_data(s, scans[s].user_id))
                    /\ UNCHANGED normal
               ELSE /\ normal' = lpush(normal, job_data(s, scans[s].user_id))
                    /\ UNCHANGED high
            /\ jobStatus' = set_job_status(jobStatus, s, "queued")
       ELSE UNCHANGED <<high, normal, jobStatus>>
    /\ creating' = [creating EXCEPT ![s].pc = "returned"]
    /\ response' = [op |-> "create", user |-> creating[s].user, scan |-> s,
                    code |-> 201, detail |-> NoReason]
    /\ UNCHANGED <<now, env, redisUp, scans, nextId, task, hist, budget>>

(***************************************************************************)
(* ScanService.cancel_scan                                                 *)
(***************************************************************************)
\* get_scan: the row with this id and this user_id, or 404
get_scan_found(s, u) == scans[s].exists /\ scans[s].user_id = u

\* a cancel_scan without the status check of line 310
CancellableAlways(status) == TRUE

\* line 310: only queued and running scans can be cancelled
Cancellable(status) == status \in {"queued", "running"}

CancelScan(s, u) ==
    IF ~get_scan_found(s, u)
    THEN /\ response' = [op |-> "cancel", user |-> u, scan |-> s, code |-> 404,
                       detail |-> Reason("Scan not found", "", "", {}, 0)]
         /\ UNCHANGED <<now, env, redisUp, scans, nextId, creating, task, high,
                        normal, jobStatus, hist, budget>>
    ELSE IF ~Cancellable(scans[s].status)
    THEN /\ response' = [op |-> "cancel", user |-> u, scan |-> s, code |-> 400,
                       detail |-> Reason("Cannot cancel scan with status",
                                         scans[s].status, "", {}, 0)]
         /\ UNCHANGED <<now, env, redisUp, scans, nextId, creating, task, high,
                        normal, jobStatus, hist, budget>>
    ELSE /\ scans' = [scans EXCEPT ![s].status = "cancelled",
                                   ![s].completed_at = now]
         /\ jobStatus' = IF redisUp
                         THEN set_job_status(jobStatus, s, "cancelled")
                         ELSE jobStatus
         /\ response' = [op |-> "cancel", user |-> u, scan |-> s, code |-> 200,
                       detail |-> NoReason]
         /\ hist' = [hist EXCEPT ![s].cancelledQueued =
                                     @ \/ scans[s].status = "queued"]
         /\ UNCHANGED <<now, env, redisUp, nextId, creating, task, high, normal,
                        budget>>

(***************************************************************************)
(* scan_worker: one process_scan task per scan                             *)
(***************************************************************************)
\* an update of the status that leaves the error message out
_update_status_only(row, status, started_at, completed_at, error_message) ==
    IF ~row.exists
    THEN row
    ELSE [row EXCEPT
            !.status = status,
            !.started_at = IF started_at # NoTime THEN started_at ELSE @,
            !.completed_at = IF completed_at # NoTime THEN completed_at ELSE @]

\* _update_scan_status: the row is written only if it exists; started_at,
\* completed_at and error_message are written when they are given
_update_scan_status(row, status, started_at, completed_at, error_message) ==
    IF ~row.exists
    THEN row
    ELSE [row EXCEPT
            !.status = status,
            !.started_at = IF started_at # NoTime THEN started_at ELSE @,
            !.completed_at = IF completed_at # NoTime THEN completed_at ELSE @,
            !.error_message = IF error_message THEN TRUE ELSE @]

\* a completion that writes the results and leaves the status as it is
CompletedRowKeepsStatus(row, start_time, end_time, vulnerabilities) ==
    IF ~row.exists
    THEN row
    ELSE [row EXCEPT !.completed_at = end_time,
                     !.duration_seconds = end_time - start_time]

\* lines 111-135: the row of a scan whose engine run returned
CompletedRow(row, start_time, end_time, vulnerabilities) ==
    IF ~row.exists
    THEN row
    ELSE [row EXCEPT
            !.status = "completed",
            !.completed_at = end_time,
            !.duration_seconds = end_time - start_time,
            !.vulnerabilities_found = Len(vulnerabilities),
            !.critical_count = SeverityCount(vulnerabilities, "critical"),
            !.high_count = SeverityCount(vulnerabilities, "high"),
            !.medium_count = SeverityCount(vulnerabilities, "medium"),
            !.low_count = SeverityCount(vulnerabilities, "low"),
            !.report_json = report_json_of(vulnerabilities),
            !.report_text = _generate_text_report(vulnerabilities)]

\* a retry policy with one retry more than max_retries
RetriesLeftOneMore(t) == t.kind = "celery" /\ t.retries <= MaxRetries

\* Celery autoretry_for = (Exception,): a task that raised is published again
\* while it has retries left
RetriesLeft(t) == t.kind = "celery" /\ t.retries < MaxRetries

Running(t) == t.pc \in {"marked", "exec", "setdone", "except"}

\* lines 78-86: a worker takes the task, reads the clock and writes running
WorkerStart(s) ==
    /\ task[s].pc = "pending"
    /\ budget.runs > 0
    /\ budget' = [budget EXCEPT !.runs = @ - 1]
    /\ task' = [task EXCEPT ![s].pc = "marked", ![s].start_time = now]
    /\ scans' = [scans EXCEPT ![s] =
                    _update_scan_status(@, "running", now, NoTime, FALSE)]
    /\ hist' = [hist EXCEPT ![s].firstStart = IF @ = NoTime THEN now ELSE @]
    /\ UNCHANGED <<now, env, redisUp, nextId, creating, high, normal, jobStatus,
                   response>>

\* lines 88-94: the status record goes to processing and the engine is invoked
WorkerInvoke(s) ==
    /\ task[s].pc = "marked"
    /\ IF redisUp
       THEN /\ jobStatus' = set_job_status(jobStatus, s, "processing")
            /\ task' = [task EXCEPT ![s].pc = "exec"]
            /\ hist' = [hist EXCEPT ![s].invoked = TRUE]
       ELSE /\ task' = [task EXCEPT ![s].pc = "except", ![s].error = "redis"]
            /\ UNCHANGED <<jobStatus, hist>>
    /\ UNCHANGED <<now, env, redisUp, scans, nextId, creating, high, normal,
                   response, budget>>

\* lines 94-135: the engine returned a result; the row is written completed
WorkerEngineOk(s, vulnerabilities) ==
    /\ task[s].pc = "exec"
    /\ scans' = [scans EXCEPT ![s] =
                    CompletedRow(@, task[s].start_time, now, vulnerabilities)]
    /\ task' = [task EXCEPT ![s].pc = "setdone"]
    /\ UNCHANGED <<now, env, redisUp, nextId, creating, high, normal, jobStatus,
                   response, hist, budget>>

\* what _execute_cli_tool raises: RuntimeError("CLI tool execution failed")
\* for a return code that is not 0 (lines 237-240), RuntimeError("Failed to
\* parse scan results") for output that is not JSON (lines 243-248)
EngineErrors == {"engine", "parse"}

\* line 94 raises: the engine failed, or its output could not be parsed
WorkerEngineFail(s, cause) ==
    /\ task[s].pc = "exec"
    /\ budget.fails > 0
    /\ budget' = [budget EXCEPT !.fails = @ - 1]
    /\ task' = [task EXCEPT ![s].pc = "except", ![s].error = cause]
    /\ UNCHANGED <<now, env, redisUp, scans, nextId, creating, high, normal,
                   jobStatus, response, hist>>

\* lines 137-147: the status record goes to completed and the task returns
WorkerReturn(s) ==
    /\ task[s].pc = "setdone"
    /\ IF redisUp
       THEN /\ jobStatus' = set_job_status(jobStatus, s, "completed")
            /\ task' = [task EXCEPT ![s].pc = "done"]
            /\ hist' = [hist EXCEPT ![s].attempts = Append(@, "ok")]
       ELSE /\ task' = [task EXCEPT ![s].pc = "except", ![s].error = "redis"]
            /\ UNCHANGED <<jobStatus, hist>>
    /\ UNCHANGED <<now, env, redisUp, scans, nextId, creating, high, normal,
                   response, budget>>

\* lines 149-166: the row is written failed, the status record goes to failed
\* and the exception is raised again; Celery retries the task or gives it up
WorkerExcept(s) ==
    /\ task[s].pc = "except"
    /\ scans' = [scans EXCEPT ![s] =
                    _update_scan_status(@, "failed", NoTime, now, TRUE)]
    /\ jobStatus' = IF redisUp
                    THEN set_job_status(jobStatus, s, "failed")
                    ELSE jobStatus
    /\ task' = IF RetriesLeft(task[s])
               THEN [task EXCEPT ![s].pc = "pending", ![s].retries = @ + 1,
                                 ![s].error = "none"]
               ELSE [task EXCEPT ![s].pc = "done", ![s].error = "none"]
    /\ hist' = [hist EXCEPT ![s].attempts = Append(@, "fail")]
    /\ UNCHANGED <<now, env, redisUp, nextId, creating, high, normal, response,
                   budget>>

\* task_acks_late and task_reject_on_worker_lost: the task of a worker that
\* died is delivered again
WorkerLost(s) ==
    /\ Running(task[s])
    /\ task[s].kind = "celery"
    /\ budget.lost > 0
    /\ budget' = [budget EXCEPT !.lost = @ - 1]
    /\ task' = [task EXCEPT ![s].pc = "pending", ![s].error = "none"]
    /\ UNCHANGED <<now, env, redisUp, scans, nextId, creating, high, normal,
                   jobStatus, response, hist>>

(***************************************************************************)
(* The environment                                                         *)
(***************************************************************************)
Tick ==
    /\ now < budget.time
    /\ now' = now + 1
    /\ UNCHANGED <<env, redisUp, scans, nextId, creating, task, high, normal,
                   jobStatus, response, hist, budget>>

RedisFail ==
    /\ redisUp
    /\ budget.outages > 0
    /\ budget' = [budget EXCEPT !.outages = @ - 1]
    /\ redisUp' = FALSE
    /\ UNCHANGED <<now, env, scans, nextId, creating, task, high, normal,
                   jobStatus, response, hist>>

RedisRecover ==
    /\ ~redisUp
    /\ redisUp' = TRUE
    /\ UNCHANGED <<now, env, scans, nextId, creating, task, high, normal,
                   jobStatus, response, hist, budget>>

\* the answer of the call that has just ended goes out to the client
Respond ==
    /\ response # NoResponse
    /\ response' = NoResponse
    /\ UNCHANGED <<now, env, redisUp, scans, nextId, creating, task, high,
                   normal, jobStatus, hist, budget>>

\* no step is taken between the end of a call and the sending of its answer:
\* the answer is an observation of the call, no handler reads it
Pending == response # NoResponse

\* what the handlers and workers of the scan table leave alone
ScanFrame ==
    UNCHANGED <<queueVars, rateVars, tierVars, retVars, reqVars, userVars>>

Next ==
    \/ ~Pending /\ ScanFrame
          /\ \E u \in Users, mode \in ScanModes : CreateScan(u, mode)
    \/ ~Pending /\ ScanFrame /\ \E s \in ScanIds : CreateRunLocal(s)
    \/ ~Pending /\ ScanFrame /\ \E s \in ScanIds : CreateDelay(s)
    \/ ~Pending /\ ScanFrame /\ \E s \in ScanIds : CreateEnqueue(s)
    \/ ~Pending /\ ScanFrame /\ \E s \in ScanIds, u \in Users : CancelScan(s, u)
    \/ ~Pending /\ ScanFrame /\ \E s \in ScanIds : WorkerStart(s)
    \/ ~Pending /\ ScanFrame /\ \E s \in ScanIds : WorkerInvoke(s)
    \/ ~Pending /\ ScanFrame
          /\ \E s \in ScanIds, vulnerabilities \in EngineResults(budget.vulns) :
                WorkerEngineOk(s, vulnerabilities)
    \/ ~Pending /\ ScanFrame
          /\ \E s \in ScanIds, cause \in EngineErrors : WorkerEngineFail(s, cause)
    \/ ~Pending /\ ScanFrame /\ \E s \in ScanIds : WorkerReturn(s)
    \/ ~Pending /\ ScanFrame /\ \E s \in ScanIds : WorkerExcept(s)
    \/ ~Pending /\ ScanFrame /\ RedisFail
    \/ ~Pending /\ ScanFrame /\ RedisRecover
    \/ ScanFrame /\ Respond

Spec == Init /\ [][Next]_vars

NextRetry ==
    \/ ~Pending /\ ScanFrame
          /\ \E u \in Users, mode \in ScanModes : CreateScan(u, mode)
    \/ ~Pending /\ ScanFrame /\ \E s \in ScanIds : CreateDelay(s)
    \/ ~Pending /\ ScanFrame /\ \E s \in ScanIds : CreateEnqueue(s)
    \/ ~Pending /\ ScanFrame /\ \E s \in ScanIds, u \in Users : CancelScan(s, u)
    \/ ~Pending /\ ScanFrame /\ \E s \in ScanIds : WorkerStart(s)
    \/ ~Pending /\ ScanFrame /\ \E s \in ScanIds : WorkerInvoke(s)
    \/ ~Pending /\ ScanFrame
          /\ \E s \in ScanIds, vulnerabilities \in EngineResults(budget.vulns) :
                WorkerEngineOk(s, vulnerabilities)
    \/ ~Pending /\ ScanFrame
          /\ \E s \in ScanIds, cause \in EngineErrors : WorkerEngineFail(s, cause)
    \/ ~Pending /\ ScanFrame /\ \E s \in ScanIds : WorkerReturn(s)
    \/ ~Pending /\ ScanFrame /\ \E s \in ScanIds : WorkerExcept(s)
    \/ ~Pending /\ ScanFrame /\ \E s \in ScanIds : WorkerLost(s)
    \/ ~Pending /\ ScanFrame /\ Tick
    \/ ScanFrame /\ Respond

SpecRetry == InitRetry /\ [][NextRetry]_vars

NextResult ==
    \/ ~Pending /\ ScanFrame
          /\ \E u \in Users, mode \in ScanModes : CreateScan(u, mode)
    \/ ~Pending /\ ScanFrame /\ \E s \in ScanIds : CreateDelay(s)
    \/ ~Pending /\ ScanFrame /\ \E s \in ScanIds : CreateEnqueue(s)
    \/ ~Pending /\ ScanFrame /\ \E s \in ScanIds : WorkerStart(s)
    \/ ~Pending /\ ScanFrame /\ \E s \in ScanIds : WorkerInvoke(s)
    \/ ~Pending /\ ScanFrame
          /\ \E s \in ScanIds, vulnerabilities \in EngineResults(budget.vulns) :
                WorkerEngineOk(s, vulnerabilities)
    \/ ~Pending /\ ScanFrame
          /\ \E s \in ScanIds, cause \in EngineErrors : WorkerEngineFail(s, cause)
    \/ ~Pending /\ ScanFrame /\ \E s \in ScanIds : WorkerReturn(s)
    \/ ~Pending /\ ScanFrame /\ \E s \in ScanIds : WorkerExcept(s)
    \/ ~Pending /\ ScanFrame /\ Tick
    \/ ScanFrame /\ Respond

SpecResult == InitResult /\ [][NextResult]_vars

(***************************************************************************)
(* QueueService, called directly: enqueue, dequeue, cancel, clear          *)
(***************************************************************************)
\* Redis LPOP: the element at the head of the list, and the list without it
lpop(list) == [value |-> Head(list), rest |-> Tail(list)]

\* Redis RPOP as one value: what is returned and what is left
rpop(list) == [value |-> rpop_value(list), rest |-> rpop_rest(list)]

\* enqueue_scan(scan_id, user_id, target_url, scan_mode, user_tier)
QEnqueue(tier) ==
    /\ nextId <= MaxEnq
    /\ IF queue_name(tier) = "high"
       THEN /\ high' = lpush(high, job_data(nextId, "alice"))
            /\ UNCHANGED normal
       ELSE /\ normal' = lpush(normal, job_data(nextId, "alice"))
            /\ UNCHANGED high
    /\ jobStatus' = set_job_status(jobStatus, nextId, "queued")
    /\ nextId' = nextId + 1
    /\ qlog' = [qlog EXCEPT
                  !.enq = Append(@, [id |-> nextId, lane |-> queue_name(tier)]),
                  !.mixed = @ \/ qlog.deq # <<>>]

\* dequeue_scan(timeout): RPOP of the high lane, then of the normal lane;
\* BRPOP [high, normal] serves the first of its keys that is not empty, and
\* answers nothing when the timeout ends with both empty
QDequeue(timeout) ==
    IF high # <<>>
    THEN /\ high' = rpop(high).rest
         /\ qlog' = [qlog EXCEPT !.deq = Append(@, rpop(high).value.scan_id)]
         /\ UNCHANGED <<normal, jobStatus, nextId>>
    ELSE IF normal # <<>>
    THEN /\ normal' = rpop(normal).rest
         /\ qlog' = [qlog EXCEPT !.deq = Append(@, rpop(normal).value.scan_id)]
         /\ UNCHANGED <<high, jobStatus, nextId>>
    ELSE /\ qlog' = [qlog EXCEPT !.deq = Append(@, 0)]
         /\ Len(qlog.deq) < MaxEnq
         /\ UNCHANGED <<high, normal, jobStatus, nextId>>

\* a cancel_job that also takes the entry of the job out of its lane
QCancelRemovesEntry(s) ==
    /\ jobStatus' = set_job_status(jobStatus, s, "cancelled")
    /\ high' = SelectSeq(high, LAMBDA e : e.scan_id # s)
    /\ normal' = SelectSeq(normal, LAMBDA e : e.scan_id # s)
    /\ UNCHANGED <<nextId, qlog>>

\* cancel_job(scan_id): only the status record is written
QCancel(s) ==
    /\ jobStatus' = set_job_status(jobStatus, s, "cancelled")
    /\ UNCHANGED <<high, normal, nextId, qlog>>

\* clear_queue(priority)
QClear(priority) ==
    /\ high' = IF priority \in {"high", "all"} THEN <<>> ELSE high
    /\ normal' = IF priority \in {"normal", "all"} THEN <<>> ELSE normal
    /\ qlog' = [qlog EXCEPT !.mixed = TRUE]
    /\ UNCHANGED <<jobStatus, nextId>>

InitQueue ==
    /\ InitStore
    /\ env = "production"
    /\ budget = [scans |-> 0, runs |-> 0, fails |-> 0, lost |-> 0,
                 outages |-> 0, time |-> 0, checks |-> 0, vulns |-> 0, requests |-> 0]

\* what the calls of QueueService leave alone
QueueFrame == UNCHANGED <<now, redisUp, budget, scanVars, rateVars, tierVars,
                          retVars, reqVars, userVars>>

NextQueue ==
    \/ QueueFrame /\ UNCHANGED dequeuer /\ \E tier \in Tiers : QEnqueue(tier)
    \/ QueueFrame /\ UNCHANGED dequeuer
          /\ \E timeout \in {0, 1} : QDequeue(timeout)
    \/ QueueFrame /\ UNCHANGED dequeuer /\ \E s \in JobIds : QCancel(s)
    \/ QueueFrame /\ UNCHANGED dequeuer
          /\ \E priority \in {"high", "normal", "all"} : QClear(priority)

SpecQueue == InitQueue /\ [][NextQueue]_vars

(***************************************************************************)
(* dequeue_scan in several workers                                         *)
(*                                                                         *)
(* Each Redis command is atomic; the two RPOPs of a dequeue_scan without   *)
(* timeout are two commands, and the commands of the workers interleave.   *)
(* The scans that are enqueued never end: the id of a job that was         *)
(* returned stands for a new job when it is enqueued again.                *)
(***************************************************************************)
\* the ids in a lane, and the ids the workers hold
IdsIn(list) == {list[i].scan_id : i \in DOMAIN list}
HeldIds == {dequeuer[w].result : w \in Workers} \ {0}

\* enqueue_scan of a job that is new
EnqueueJob(s, tier) ==
    /\ s \notin IdsIn(high) \cup IdsIn(normal) \cup HeldIds
    /\ IF queue_name(tier) = "high"
       THEN /\ high' = lpush(high, job_data(s, "alice"))
            /\ UNCHANGED normal
       ELSE /\ normal' = lpush(normal, job_data(s, "alice"))
            /\ UNCHANGED high
    /\ jobStatus' = set_job_status(jobStatus, s, "queued")
    /\ UNCHANGED dequeuer

\* dequeue_scan(timeout > 0): BRPOP [high, normal] is one command; it serves
\* the first of its keys that is not empty, or nothing when the timeout ends
DequeueBlocking(w) ==
    /\ dequeuer[w].pc = "idle"
    /\ IF high # <<>>
       THEN /\ high' = rpop(high).rest
            /\ dequeuer' = [dequeuer EXCEPT ![w] =
                  [pc |-> "return", result |-> rpop(high).value.scan_id]]
            /\ UNCHANGED normal
       ELSE IF normal # <<>>
       THEN /\ normal' = rpop(normal).rest
            /\ dequeuer' = [dequeuer EXCEPT ![w] =
                  [pc |-> "return", result |-> rpop(normal).value.scan_id]]
            /\ UNCHANGED high
       ELSE /\ dequeuer' = [dequeuer EXCEPT ![w] =
                  [pc |-> "return", result |-> 0]]
            /\ UNCHANGED <<high, normal>>
    /\ UNCHANGED jobStatus

\* dequeue_scan(0), line 122: RPOP of the high lane
DequeueHigh(w) ==
    /\ dequeuer[w].pc = "idle"
    /\ IF high # <<>>
       THEN /\ high' = rpop(high).rest
            /\ dequeuer' = [dequeuer EXCEPT ![w] =
                  [pc |-> "return", result |-> rpop(high).value.scan_id]]
       ELSE /\ dequeuer' = [dequeuer EXCEPT ![w].pc = "normal"]
            /\ UNCHANGED high
    /\ UNCHANGED <<normal, jobStatus>>

\* dequeue_scan(0), line 126: RPOP of the normal lane, the high lane was empty
DequeueNormal(w) ==
    /\ dequeuer[w].pc = "normal"
    /\ IF normal # <<>>
       THEN /\ normal' = rpop(normal).rest
            /\ dequeuer' = [dequeuer EXCEPT ![w] =
                  [pc |-> "return", result |-> rpop(normal).value.scan_id]]
       ELSE /\ dequeuer' = [dequeuer EXCEPT ![w] =
                  [pc |-> "return", result |-> 0]]
            /\ UNCHANGED normal
    /\ UNCHANGED <<high, jobStatus>>

\* lines 130-136: the job data, or None, is returned to the worker
DequeueReturn(w) ==
    /\ dequeuer[w].pc = "return"
    /\ dequeuer' = [dequeuer EXCEPT ![w] = NoDequeue]
    /\ UNCHANGED <<high, normal, jobStatus>>

\* what the calls of the workers leave alone
WorkersFrame ==
    UNCHANGED <<now, redisUp, nextId, budget, qlog, scanVars, rateVars,
                tierVars, retVars, reqVars, userVars>>

\* a step of the worker w
WorkerStep(w) ==
    WorkersFrame /\ (\/ DequeueBlocking(w) \/ DequeueHigh(w)
                     \/ DequeueNormal(w) \/ DequeueReturn(w))

InitWorkers ==
    /\ InitStore
    /\ env = "production"
    /\ budget = [scans |-> 0, runs |-> 0, fails |-> 0, lost |-> 0,
                 outages |-> 0, time |-> 0, checks |-> 0, vulns |-> 0,
                 requests |-> 0]

NextWorkers ==
    \/ WorkersFrame /\ \E s \in JobIds, tier \in Tiers : EnqueueJob(s, tier)
    \/ WorkersFrame /\ \E w \in Workers : DequeueBlocking(w)
    \/ WorkersFrame /\ \E w \in Workers : DequeueHigh(w)
    \/ WorkersFrame /\ \E w \in Workers : DequeueNormal(w)
    \/ WorkersFrame /\ \E w \in Workers : DequeueReturn(w)

\* the workers keep dequeuing: every worker goes on taking its steps
SpecWorkers ==
    /\ InitWorkers
    /\ [][NextWorkers]_vars
    /\ \A w \in Workers : WF_vars(WorkerStep(w))

(***************************************************************************)
(* RateLimitMiddleware._check_rate_limit                                   *)
(***************************************************************************)
\* a table that gives the enterprise tier the limit of the premium tier
rate_limit_info_all_finite(tier) ==
    IF tier = "free"
    THEN [limit |-> FreeLimit, window |-> FreeWindow]
    ELSE [limit |-> PremiumLimit, window |-> PremiumWindow]

\* RATE_LIMITS[user_tier]: limit and window, Unlimited for enterprise
rate_limit_info(tier) ==
    CASE tier = "free" -> [limit |-> FreeLimit, window |-> FreeWindow]
      [] tier = "premium" -> [limit |-> PremiumLimit, window |-> PremiumWindow]
      [] OTHER -> [limit |-> Unlimited, window |-> Unlimited]

\* a purge that keeps the score window_start itself
zremrangebyscore_below(set, lo, hi) == {x \in set : ~(lo <= x /\ x < hi)}

\* zremrangebyscore(key, 0, window_start): the scores in [0, window_start] go
zremrangebyscore(set, lo, hi) == {x \in set : ~(lo <= x /\ x <= hi)}

\* zadd(key, {str(now): now}): the member is the text of the second, so a
\* second that is already a member stays one member
zadd(set, x) == set \cup {x}

\* zrange(key, 0, 0, withscores=True): the member with the lowest score
Oldest(set) == CHOOSE x \in set : \A y \in set : x <= y

\* a key that leaves out the user
rate_limit_key_of_tier(u, tier) == <<"alice", tier>>

\* line 151: key = f"rate_limit:{user_id}:{user_tier}"
rate_limit_key(u, tier) == <<u, tier>>

\* the answer (allowed, remaining, reset_time) of a check of key k at now
RateAnswer(k, allowed, remaining, reset_time) ==
    [key |-> k, time |-> now, allowed |-> allowed, remaining |-> remaining,
     reset_time |-> reset_time]

\* the commands of one check, in the order the code issues them: the purge,
\* the count, then the oldest entry of a full window or the add and the expiry
CheckCommands(full) ==
    IF full
    THEN <<"zremrangebyscore", "zcard", "zrange">>
    ELSE <<"zremrangebyscore", "zcard", "zadd", "expire">>

\* a check that records the request also when it denies it
CheckRateLimitRecordsDenials(u, tier) ==
    LET k == rate_limit_key(u, tier)
        info == rate_limit_info(tier)
        purged == zremrangebyscore(windows[k], 0, now - info.window)
        current_count == Cardinality(purged)
    IN  /\ budget.checks > 0
        /\ budget' = [budget EXCEPT !.checks = @ - 1]
        /\ UNCHANGED redisUp
        /\ IF info.limit = Unlimited
           THEN /\ rlLast' = RateAnswer(k, TRUE, 999999, 0)
                /\ rlog' = [rlog EXCEPT ![k][now] = @ + 1]
                /\ redisCalls' = <<>>
                /\ UNCHANGED windows
           ELSE IF current_count >= info.limit
           THEN /\ redisUp
                /\ windows' = [windows EXCEPT ![k] = zadd(purged, now)]
                /\ rlLast' = RateAnswer(k, FALSE, 0,
                                 IF purged # {}
                                 THEN Oldest(purged) + info.window
                                 ELSE now + info.window)
                /\ redisCalls' = CheckCommands(TRUE)
                /\ UNCHANGED rlog
           ELSE /\ redisUp
                /\ windows' = [windows EXCEPT ![k] = zadd(purged, now)]
                /\ rlLast' = RateAnswer(k, TRUE, info.limit - (current_count + 1),
                                        now + info.window)
                /\ redisCalls' = CheckCommands(FALSE)
                /\ rlog' = [rlog EXCEPT ![k][now] = @ + 1]

\* a check that still admits when the window holds limit entries
CheckRateLimitAdmitsAtLimit(u, tier) ==
    LET k == rate_limit_key(u, tier)
        info == rate_limit_info(tier)
        purged == zremrangebyscore(windows[k], 0, now - info.window)
        current_count == Cardinality(purged)
    IN  /\ budget.checks > 0
        /\ budget' = [budget EXCEPT !.checks = @ - 1]
        /\ UNCHANGED redisUp
        /\ IF info.limit = Unlimited
           THEN /\ rlLast' = RateAnswer(k, TRUE, 999999, 0)
                /\ rlog' = [rlog EXCEPT ![k][now] = @ + 1]
                /\ redisCalls' = <<>>
                /\ UNCHANGED windows
           ELSE IF current_count > info.limit
           THEN /\ redisUp
                /\ windows' = [windows EXCEPT ![k] = purged]
                /\ rlLast' = RateAnswer(k, FALSE, 0,
                                 IF purged # {}
                                 THEN Oldest(purged) + info.window
                                 ELSE now + info.window)
                /\ redisCalls' = CheckCommands(TRUE)
                /\ UNCHANGED rlog
           ELSE /\ redisUp
                /\ windows' = [windows EXCEPT ![k] = zadd(purged, now)]
                /\ rlLast' = RateAnswer(k, TRUE, info.limit - (current_count + 1),
                                        now + info.window)
                /\ redisCalls' = CheckCommands(FALSE)
                /\ rlog' = [rlog EXCEPT ![k][now] = @ + 1]

\* lines 140-181: the check of a key when every Redis command answers
CheckRateLimit(u, tier) ==
    LET k == rate_limit_key(u, tier)
        info == rate_limit_info(tier)
        purged == zremrangebyscore(windows[k], 0, now - info.window)
        current_count == Cardinality(purged)
    IN  /\ budget.checks > 0
        /\ budget' = [budget EXCEPT !.checks = @ - 1]
        /\ UNCHANGED redisUp
        /\ IF info.limit = Unlimited
           THEN /\ rlLast' = RateAnswer(k, TRUE, 999999, 0)
                /\ rlog' = [rlog EXCEPT ![k][now] = @ + 1]
                /\ redisCalls' = <<>>
                /\ UNCHANGED windows
           ELSE IF current_count >= info.limit
           THEN /\ redisUp
                /\ windows' = [windows EXCEPT ![k] = purged]
                /\ rlLast' = RateAnswer(k, FALSE, 0,
                                 IF purged # {}
                                 THEN Oldest(purged) + info.window
                                 ELSE now + info.window)
                /\ redisCalls' = CheckCommands(TRUE)
                /\ UNCHANGED rlog
           ELSE /\ redisUp
                /\ windows' = [windows EXCEPT ![k] = zadd(purged, now)]
                /\ rlLast' = RateAnswer(k, TRUE, info.limit - (current_count + 1),
                                        now + info.window)
                /\ redisCalls' = CheckCommands(FALSE)
                /\ rlog' = [rlog EXCEPT ![k][now] = @ + 1]

\* an except branch that denies the request
ExceptAnswerDenies(k, info) == RateAnswer(k, FALSE, 0, now + info.window)

\* lines 183-186: the except branch allows the request
ExceptAnswer(k, info) == RateAnswer(k, TRUE, info.limit, now + info.window)

\* lines 153-186: the n-th Redis command of the check raises, the commands
\* before it have taken effect, and the except branch answers; Redis is down
\* when the check begins (n = 1) or goes down while the check runs
CheckRateLimitRaises(u, tier, n) ==
    LET k == rate_limit_key(u, tier)
        info == rate_limit_info(tier)
        purged == zremrangebyscore(windows[k], 0, now - info.window)
        commands == CheckCommands(Cardinality(purged) >= info.limit)
    IN  /\ budget.checks > 0
        /\ info.limit # Unlimited
        /\ n \in 1..Len(commands)
        /\ IF redisUp
           THEN /\ n > 1
                /\ budget.outages > 0
                /\ budget' = [budget EXCEPT !.checks = @ - 1,
                                            !.outages = @ - 1]
                /\ redisUp' = FALSE
           ELSE /\ n = 1
                /\ budget' = [budget EXCEPT !.checks = @ - 1]
                /\ UNCHANGED redisUp
        /\ windows' = [windows EXCEPT ![k] =
                          IF n = 1
                          THEN @
                          ELSE IF commands[n] = "expire"
                               THEN zadd(purged, now)
                               ELSE purged]
        /\ redisCalls' = SubSeq(commands, 1, n)
        /\ rlLast' = ExceptAnswer(k, info)
        /\ UNCHANGED rlog

\* a response that dispatch passes on without a check
PassedOn(u, tier) ==
    [user |-> u, tier |-> tier, code |-> 200, checked |-> FALSE,
     headers |-> NoHeaders]

\* a dispatch that sets the headers only on the responses of call_next
CheckedHeadersWhenAllowed(u, tier, a) ==
    [user |-> u, tier |-> tier,
     code |-> IF a.allowed THEN 200 ELSE 429,
     checked |-> TRUE,
     headers |-> IF rate_limit_info(tier).limit # Unlimited /\ a.allowed
                 THEN [present |-> TRUE,
                       limit |-> rate_limit_info(tier).limit,
                       remaining |-> IF a.remaining > 0 THEN a.remaining ELSE 0,
                       reset |-> a.reset_time]
                 ELSE NoHeaders]

\* lines 108-123: the response after a check with the answer a
Checked(u, tier, a) ==
    [user |-> u, tier |-> tier,
     code |-> IF a.allowed THEN 200 ELSE 429,
     checked |-> TRUE,
     headers |-> IF rate_limit_info(tier).limit # Unlimited
                 THEN [present |-> TRUE,
                       limit |-> rate_limit_info(tier).limit,
                       remaining |-> IF a.remaining > 0 THEN a.remaining ELSE 0,
                       reset |-> a.reset_time]
                 ELSE NoHeaders]

\* dispatch of a request of an authenticated user to a rate-limited path
Dispatch(u, tier) ==
    IF ~redis_client \/ is_owner_email(u)
    THEN /\ budget.checks > 0
         /\ budget' = [budget EXCEPT !.checks = @ - 1]
         /\ reply' = PassedOn(u, tier)
         /\ redisCalls' = <<>>
         /\ UNCHANGED <<redisUp, windows, rlog, rlLast>>
    ELSE /\ \/ CheckRateLimit(u, tier)
            \/ \E n \in 1..4 : CheckRateLimitRaises(u, tier, n)
         /\ reply' = Checked(u, tier, rlLast')

\* _init_redis, when the web process starts: the client is kept only if the
\* ping is answered
InitRedis ==
    /\ redis_client' = redisUp
    /\ UNCHANGED <<redisUp, budget, windows, rlog, rlLast, redisCalls, reply>>

InitRate ==
    /\ InitStore
    /\ env = "production"
    /\ budget = [scans |-> 0, runs |-> 0, fails |-> 0, lost |-> 0,
                 outages |-> MaxOutages, time |-> MaxRateTime,
                 checks |-> MaxChecks, vulns |-> 0, requests |-> 0]

\* what the middleware leaves alone
RateFrame == UNCHANGED <<now, nextId, high, normal, jobStatus, scanVars,
                         queueVars, tierVars, retVars, reqVars, userVars>>

\* the users whose requests reach dispatch
Requesters == Subjects \cup {"root"}

NextRate ==
    \/ RateFrame /\ UNCHANGED <<redis_client, checker>>
          /\ \E u \in Requesters, tier \in Tiers : Dispatch(u, tier)
    \/ RateFrame /\ UNCHANGED checker /\ InitRedis
    \/ Tick /\ ScanFrame
    \/ RedisFail /\ ScanFrame
    \/ RedisRecover /\ ScanFrame

SpecRate == InitRate /\ [][NextRate]_vars

\* the requests of one free user to one server process, until after the
\* window of the first of them has passed
InitReset ==
    /\ InitStore
    /\ env = "production"
    /\ budget = [scans |-> 0, runs |-> 0, fails |-> 0, lost |-> 0,
                 outages |-> MaxOutages, time |-> MaxRateTime,
                 checks |-> MaxResetChecks, vulns |-> 0, requests |-> 0]

NextReset ==
    \/ RateFrame /\ UNCHANGED <<redis_client, checker>>
          /\ Dispatch("alice", "free")
    \/ RateFrame /\ UNCHANGED checker /\ InitRedis
    \/ Tick /\ ScanFrame
    \/ RedisFail /\ ScanFrame
    \/ RedisRecover /\ ScanFrame

SpecReset == InitReset /\ [][NextReset]_vars

(***************************************************************************)
(* A request on its way through the application                            *)
(*                                                                         *)
(* main.py adds CORSMiddleware, RateLimitMiddleware and then               *)
(* UsageTrackingMiddleware; the middleware added last is the outermost.    *)
(* The dependencies of the endpoint (get_current_user) run when the router *)
(* calls the endpoint, after the dispatch of every middleware has called   *)
(* call_next.                                                              *)
(***************************************************************************)
\* a path of the API behind get_current_user, and a path both middlewares skip
Paths == {"/api/v1/scans", "/health"}
skip_paths(path) == path = "/health"

\* a request arrives with the bearer token of the user u
Arrive(u, path) ==
    /\ request.pc = "none"
    /\ budget.requests > 0
    /\ budget' = [budget EXCEPT !.requests = @ - 1]
    /\ request' = [NoRequest EXCEPT !.pc = "usage_tracking", !.path = path,
                                    !.bearer = u]
    /\ UNCHANGED <<redisUp, windows, rlog, rlLast, redisCalls, reply>>

\* UsageTrackingMiddleware.dispatch up to call_next: request.state.user_id is
\* set to None on the paths it tracks
UsageTrackingDispatch ==
    /\ request.pc = "usage_tracking"
    /\ request' = [request EXCEPT
                      !.pc = "rate_limit",
                      !.user_id = IF skip_paths(request.path) THEN @ ELSE "none"]
    /\ UNCHANGED <<budget, redisUp, windows, rlog, rlLast, redisCalls, reply>>

\* RateLimitMiddleware.dispatch: a skipped path and a request whose
\* request.state has no user_id are passed on; the others go through Dispatch
RateLimitDispatch ==
    /\ request.pc = "rate_limit"
    /\ IF skip_paths(request.path) \/ request.user_id = "none"
       THEN /\ request' = [request EXCEPT !.pc = "endpoint"]
            /\ UNCHANGED <<budget, redisUp, windows, rlog, rlLast, redisCalls,
                           reply>>
       ELSE /\ Dispatch(request.user_id, request.user_tier)
            /\ request' = [request EXCEPT
                              !.pc = IF reply'.code = 429 THEN "answered"
                                     ELSE "endpoint",
                              !.checked = reply'.checked]

\* get_current_user, a dependency of the endpoint: the user of the token is
\* read and request.state gets its id, tier and e-mail
GetCurrentUser ==
    /\ request.pc = "endpoint"
    /\ request' =
          IF skip_paths(request.path)
          THEN [request EXCEPT !.pc = "handler"]
          ELSE [request EXCEPT !.pc = "handler",
                               !.user_id = request.bearer,
                               !.user_tier = UserTier(request.bearer),
                               !.user_email = request.bearer]
    /\ UNCHANGED <<budget, redisUp, windows, rlog, rlLast, redisCalls, reply>>

\* the endpoint handler runs
Handler ==
    /\ request.pc = "handler"
    /\ request' = [request EXCEPT !.pc = "handled"]
    /\ UNCHANGED <<budget, redisUp, windows, rlog, rlLast, redisCalls, reply>>

\* the response goes back through the middlewares and out
Answer ==
    /\ request.pc \in {"handled", "answered"}
    /\ request' = NoRequest
    /\ UNCHANGED <<budget, redisUp, windows, rlog, rlLast, redisCalls, reply>>

\* what a request leaves alone
RequestFrame ==
    UNCHANGED <<now, nextId, high, normal, jobStatus, scanVars, queueVars,
                tierVars, retVars, userVars, redis_client, checker>>

InitRequest ==
    /\ InitStore
    /\ env = "production"
    /\ budget = [scans |-> 0, runs |-> 0, fails |-> 0, lost |-> 0,
                 outages |-> MaxOutages, time |-> 0, checks |-> MaxRequests,
                 vulns |-> 0, requests |-> MaxRequests]

NextRequest ==
    \/ RequestFrame /\ \E u \in Requesters, path \in Paths : Arrive(u, path)
    \/ RequestFrame /\ UsageTrackingDispatch
    \/ RequestFrame /\ RateLimitDispatch
    \/ RequestFrame /\ GetCurrentUser
    \/ RequestFrame /\ Handler
    \/ RequestFrame /\ Answer
    \/ RateFrame /\ UNCHANGED checker /\ InitRedis
    \/ RedisFail /\ ScanFrame
    \/ RedisRecover /\ ScanFrame

SpecRequest == InitRequest /\ [][NextRequest]_vars

(***************************************************************************)
(* _check_rate_limit in several server processes                           *)
(*                                                                         *)
(* The Redis client of the middleware is synchronous, so the commands of   *)
(* one check run without interruption inside one process; the processes of *)
(* a deployment with several servers share the Redis and their commands    *)
(* interleave.                                                             *)
(***************************************************************************)
\* lines 140-156: the limit of the tier is finite; the clock is read once
RaceBegin(p, u, tier) ==
    /\ checker[p].pc = "idle"
    /\ rate_limit_info(tier).limit # Unlimited
    /\ budget.checks > 0
    /\ budget' = [budget EXCEPT !.checks = @ - 1]
    /\ checker' = [checker EXCEPT ![p] = [NoChecker EXCEPT !.pc = "purge",
                                                           !.key = <<u, tier>>,
                                                           !.now = now]]
    /\ UNCHANGED <<windows, rlog, rlLast>>

\* line 159: zremrangebyscore(key, 0, window_start)
RacePurge(p) ==
    LET c == checker[p]
        info == rate_limit_info(c.key[2])
    IN  /\ c.pc = "purge"
        /\ windows' = [windows EXCEPT ![c.key] =
                           zremrangebyscore(@, 0, c.now - info.window)]
        /\ checker' = [checker EXCEPT ![p].pc = "count"]
        /\ UNCHANGED <<budget, rlog, rlLast>>

\* lines 162-165: zcard(key), and the comparison with the limit
RaceCount(p) ==
    LET c == checker[p]
        info == rate_limit_info(c.key[2])
        current_count == Cardinality(windows[c.key])
    IN  /\ c.pc = "count"
        /\ checker' = [checker EXCEPT
                           ![p].current_count = current_count,
                           ![p].pc = IF current_count >= info.limit
                                     THEN "range" ELSE "add"]
        /\ UNCHANGED <<budget, windows, rlog, rlLast>>

\* lines 167-169: zrange(key, 0, 0) and the denial
RaceRange(p) ==
    LET c == checker[p]
        info == rate_limit_info(c.key[2])
    IN  /\ c.pc = "range"
        /\ checker' = [checker EXCEPT
               ![p].pc = "done",
               ![p].answer =
                   [key |-> c.key, time |-> c.now, allowed |-> FALSE,
                    remaining |-> 0,
                    reset_time |-> IF windows[c.key] # {}
                                   THEN Oldest(windows[c.key]) + info.window
                                   ELSE c.now + info.window]]
        /\ UNCHANGED <<budget, windows, rlog, rlLast>>

\* an add that looks at the window again and denies when it has filled
RaceAddIfRoom(p) ==
    LET c == checker[p]
        info == rate_limit_info(c.key[2])
        room == Cardinality(windows[c.key]) < info.limit
    IN  /\ c.pc = "add"
        /\ windows' = IF room
                      THEN [windows EXCEPT ![c.key] = zadd(@, c.now)]
                      ELSE windows
        /\ rlog' = IF room THEN [rlog EXCEPT ![c.key][c.now] = @ + 1]
                   ELSE rlog
        /\ checker' = [checker EXCEPT
               ![p].pc = "done",
               ![p].answer =
                   [key |-> c.key, time |-> c.now, allowed |-> room,
                    remaining |-> IF room
                                  THEN info.limit - (c.current_count + 1)
                                  ELSE 0,
                    reset_time |-> c.now + info.window]]
        /\ UNCHANGED <<budget, rlLast>>

\* lines 172-181: zadd(key, {str(now): now}), expire(key, window) and the
\* admission, computed from the count that was read before
RaceAdd(p) ==
    LET c == checker[p]
        info == rate_limit_info(c.key[2])
    IN  /\ c.pc = "add"
        /\ windows' = [windows EXCEPT ![c.key] = zadd(@, c.now)]
        /\ rlog' = [rlog EXCEPT ![c.key][c.now] = @ + 1]
        /\ checker' = [checker EXCEPT
               ![p].pc = "done",
               ![p].answer =
                   [key |-> c.key, time |-> c.now, allowed |-> TRUE,
                    remaining |-> info.limit - (c.current_count + 1),
                    reset_time |-> c.now + info.window]]
        /\ UNCHANGED <<budget, rlLast>>

\* lines 105-107: dispatch has the answer of the check
RaceReturn(p) ==
    /\ checker[p].pc = "done"
    /\ rlLast' = checker[p].answer
    /\ checker' = [checker EXCEPT ![p] = NoChecker]
    /\ UNCHANGED <<budget, windows, rlog>>

\* what a check leaves alone; Redis answers throughout these runs
RaceFrame ==
    UNCHANGED <<now, redisUp, nextId, high, normal, jobStatus, scanVars,
                queueVars, tierVars, retVars, reqVars, userVars, redis_client,
                redisCalls, reply>>

\* the requests of one free user, served by the processes of Servers
InitRace ==
    /\ InitStore
    /\ env = "production"
    /\ budget = [scans |-> 0, runs |-> 0, fails |-> 0, lost |-> 0,
                 outages |-> 0, time |-> MaxRateTime, checks |-> MaxRaceChecks, vulns |-> 0, requests |-> 0]

NextRace ==
    \/ RaceFrame /\ \E p \in Servers : RaceBegin(p, "alice", "free")
    \/ RaceFrame /\ \E p \in Servers : RacePurge(p)
    \/ RaceFrame /\ \E p \in Servers : RaceCount(p)
    \/ RaceFrame /\ \E p \in Servers : RaceRange(p)
    \/ RaceFrame /\ \E p \in Servers : RaceAdd(p)
    \/ RaceFrame /\ \E p \in Servers : RaceReturn(p)
    \/ Tick /\ ScanFrame

SpecRace == InitRace /\ [][NextRace]_vars

(***************************************************************************)
(* The age of rows: the clock over days, and the checks of TierService     *)
(***************************************************************************)
\* RETENTION_PERIODS.get(tier.lower()), in days; None for enterprise and for
\* a tier the table does not know
get_retention_period(tier) ==
    CASE tier = "free" -> 30
      [] tier = "premium" -> 365
      [] OTHER -> Unlimited

\* the instants the clock of a run shows: the start and the given numbers of
\* days later, each followed by up to MaxSeconds seconds
Instants(days) ==
    {d * DaySeconds + x : d \in {0} \cup days, x \in 0..MaxSeconds}

\* datetime.utcnow() has moved on to a later instant
Elapse(t) ==
    /\ now < t
    /\ t <= budget.time
    /\ now' = t
    /\ UNCHANGED <<env, redisUp, scans, nextId, creating, task, high, normal,
                   jobStatus, response, hist, budget>>

\* what a call of TierService by itself leaves alone
TierFrame ==
    UNCHANGED <<now, redisUp, nextId, high, normal, jobStatus, budget,
                scanVars, queueVars, rateVars, retVars, reqVars, userVars,
                creators, admitted>>

\* a call of TierService.check_scan_limit
CheckScanLimit(u) ==
    /\ tierCheck' = [op |-> "limit", user |-> u, mode |-> "",
                     answer |-> check_scan_limit(u),
                     queries |-> check_scan_limit_queries(u)]
    /\ TierFrame

\* a call of TierService.check_scan_mode
CheckScanMode(u, mode) ==
    /\ tierCheck' = [op |-> "mode", user |-> u, mode |-> mode,
                     answer |-> check_scan_mode(u, mode), queries |-> 0]
    /\ TierFrame

\* a call of TierService.check_scan_access
CheckScanAccess(u, mode) ==
    /\ tierCheck' = [op |-> "access", user |-> u, mode |-> mode,
                     answer |-> check_scan_access_run(u, mode).answer,
                     queries |-> check_scan_access_run(u, mode).queries]
    /\ TierFrame

\* the caller has taken the TierCheckResponse
TierReturn ==
    /\ tierCheck # NoTierCheck
    /\ tierCheck' = NoTierCheck
    /\ TierFrame

\* no step is taken between a call of TierService and its return
Checking == tierCheck # NoTierCheck

\* creates of every account over a day and some seconds, and the tier checks
InitTier ==
    /\ InitStore
    /\ env = "production"
    /\ budget = [scans |-> MaxScans, runs |-> 0, fails |-> 0, lost |-> 0,
                 outages |-> 0, time |-> DaySeconds + MaxSeconds,
                 checks |-> 0, vulns |-> 0, requests |-> 0]

NextTier ==
    \/ ~Pending /\ ~Checking /\ ScanFrame
          /\ \E u \in Accounts, mode \in ScanModes : CreateScan(u, mode)
    \/ ~Pending /\ ~Checking /\ ScanFrame /\ \E s \in ScanIds : CreateDelay(s)
    \/ ~Pending /\ ~Checking /\ ScanFrame
          /\ \E s \in ScanIds : CreateEnqueue(s)
    \/ ~Pending /\ ~Checking /\ ScanFrame /\ \E t \in Instants({1}) : Elapse(t)
    \/ ~Pending /\ ~Checking /\ \E u \in Accounts : CheckScanLimit(u)
    \/ ~Pending /\ ~Checking
          /\ \E u \in Accounts, mode \in AllScanModes : CheckScanMode(u, mode)
    \/ ~Pending /\ ~Checking
          /\ \E u \in Accounts, mode \in AllScanModes : CheckScanAccess(u, mode)
    \/ TierReturn
    \/ ScanFrame /\ Respond

SpecTier == InitTier /\ [][NextTier]_vars

(***************************************************************************)
(* RetentionService                                                        *)
(***************************************************************************)
\* the table users of these runs: one user of each tier
RetentionUsers == {"alice", "bob", "carol"}

\* datetime.utcnow() - timedelta(days=retention_days)
cutoff_date(tier) == now - get_retention_period(tier) * DaySeconds

\* WHERE user_id = u AND created_at >= cutoff_date; every row of u when the
\* period is None
AccessibleRows(u, tier) ==
    {s \in ScanIds :
        /\ scans[s].exists
        /\ scans[s].user_id = u
        /\ \/ get_retention_period(tier) = Unlimited
           \/ scans[s].created_at >= cutoff_date(tier)}

\* the sequences over ScanIds without a repeated id
RowLists ==
    {q \in UNION {[1..n -> ScanIds] : n \in 0..MaxScans} :
        \A i, j \in 1..Len(q) : i # j => q[i] # q[j]}

\* an ORDER BY created_at without DESC: oldest first
OrderedByCreatedAtAsc(q) ==
    \A i, j \in 1..Len(q) :
        i < j => scans[q[i]].created_at <= scans[q[j]].created_at

\* ORDER BY created_at DESC; rows of one created_at come in any order
OrderedByCreatedAtDesc(q) ==
    \A i, j \in 1..Len(q) :
        i < j => scans[q[i]].created_at >= scans[q[j]].created_at

\* a WHERE that also takes the rows created at the cutoff
ExpiredRowsUpToCutoff(u, tier) ==
    {s \in ScanIds : /\ scans[s].exists
                     /\ scans[s].user_id = u
                     /\ scans[s].created_at <= cutoff_date(tier)}

\* WHERE user_id = u AND created_at < cutoff_date
ExpiredRows(u, tier) ==
    {s \in ScanIds : /\ scans[s].exists
                     /\ scans[s].user_id = u
                     /\ scans[s].created_at < cutoff_date(tier)}

\* archive_expired_scans: the table after the DELETE and its commit, and the
\* rowcount; nothing is deleted when the period is None
archive_expired_scans(u, tier) ==
    IF get_retention_period(tier) = Unlimited
    THEN [scans |-> scans, archived_count |-> 0]
    ELSE [scans |-> [s \in ScanIds |->
                        IF s \in ExpiredRows(u, tier) THEN NoScan
                        ELSE scans[s]],
          archived_count |-> Cardinality(ExpiredRows(u, tier))]

\* what a call of get_accessible_scans leaves alone
ReadFrame ==
    UNCHANGED <<now, redisUp, nextId, high, normal, jobStatus, budget,
                scanVars, queueVars, rateVars, tierVars, reqVars, userVars,
                cleanup>>

\* what a DELETE of RetentionService leaves alone
DeleteFrame ==
    UNCHANGED <<now, env, redisUp, nextId, creating, task, high, normal,
                jobStatus, response, hist, budget, queueVars, rateVars,
                tierVars, reqVars, userVars>>

\* a call of RetentionService.get_accessible_scans
GetAccessibleScans(u, tier) ==
    /\ \E q \in RowLists :
          /\ {q[i] : i \in 1..Len(q)} = AccessibleRows(u, tier)
          /\ OrderedByCreatedAtDesc(q)
          /\ retention' = [op |-> "accessible", user |-> u, tier |-> tier,
                           count |-> Len(q), rows |-> q]
    /\ ReadFrame

\* a call of RetentionService.archive_expired_scans, as archive_user_scans
\* makes it
ArchiveExpiredScans(u, tier) ==
    /\ scans' = archive_expired_scans(u, tier).scans
    /\ retention' = [op |-> "archive", user |-> u, tier |-> tier,
                     count |-> archive_expired_scans(u, tier).archived_count,
                     rows |-> <<>>]
    /\ DeleteFrame
    /\ UNCHANGED cleanup

\* a restore that brings every row deleted so far back as a row of u
restore_scans_as_rows(u, old_tier, new_tier) ==
    [scans |-> [s \in ScanIds |->
                   IF s < nextId /\ ~scans[s].exists THEN NewScan(u)
                   ELSE scans[s]],
     restored |-> Cardinality({s \in ScanIds :
                                 s < nextId /\ ~scans[s].exists})]

\* restore_scans_on_upgrade: a log line and return 0; the table as it leaves
\* it
restore_scans_on_upgrade(u, old_tier, new_tier) ==
    [scans |-> scans, restored |-> 0]

\* a call of RetentionService.restore_scans_on_upgrade
RestoreScansOnUpgrade(u, old_tier, new_tier) ==
    /\ scans' = restore_scans_on_upgrade(u, old_tier, new_tier).scans
    /\ retention' =
          [op |-> "restore", user |-> u, tier |-> new_tier,
           count |-> restore_scans_on_upgrade(u, old_tier, new_tier).restored,
           rows |-> <<>>]
    /\ DeleteFrame
    /\ UNCHANGED cleanup

\* the caller has taken the value returned
RetentionReturn ==
    /\ retention # NoRetention
    /\ retention' = NoRetention
    /\ ReadFrame
    /\ UNCHANGED scans

\* no step is taken between a return of RetentionService and its caller, and
\* none of another call while the loop of cleanup_all_expired_scans runs: the
\* rows a request adds meanwhile are inside every period
Returning == retention # NoRetention
Sweeping == cleanup.pc # "idle"

\* the permutations of the table users
UserLists ==
    {q \in [1..Cardinality(RetentionUsers) -> RetentionUsers] :
        \A i, j \in 1..Len(q) : i # j => q[i] # q[j]}

\* lines 131-135: select(User), in the order the database returns the rows;
\* the User objects keep the tier they were loaded with, the session does
\* not expire them on commit
CleanupStart ==
    /\ cleanup.pc = "idle"
    /\ \E q \in UserLists :
          cleanup' = [pc |-> "loop", users |-> q, total_archived |-> 0,
                      aborted |-> FALSE, swept |-> {}, raised |-> {},
                      tier |-> [u \in Accounts |-> UserTier(u)]]
    /\ UNCHANGED <<now, redisUp, nextId, high, normal, jobStatus, budget,
                   scanVars, queueVars, rateVars, tierVars, reqVars, userVars,
                   retention>>

\* lines 137-140: archive_expired_scans returns for the next user; it issues
\* no statement when the period of the tier is None
CleanupArchive ==
    LET user == Head(cleanup.users) IN
    /\ cleanup.pc = "loop"
    /\ cleanup.users # <<>>
    /\ ~cleanup.aborted
          \/ get_retention_period(cleanup.tier[user]) = Unlimited
    /\ scans' = archive_expired_scans(user, cleanup.tier[user]).scans
    /\ cleanup' =
          [cleanup EXCEPT
              !.users = Tail(@),
              !.swept = @ \cup {user},
              !.total_archived =
                  @ + archive_expired_scans(user,
                                            cleanup.tier[user]).archived_count]
    /\ DeleteFrame
    /\ UNCHANGED retention

\* lines 141-143: the DELETE of the next user raises and the loop goes on
\* without a rollback. A statement fails by itself at most MaxFails times in
\* a run of the loop; whether the transaction of the session is then aborted,
\* so that every later statement on the session raises as well, depends on
\* the database (PostgreSQL aborts it, SQLite does not)
CleanupRaise ==
    LET user == Head(cleanup.users) IN
    /\ cleanup.pc = "loop"
    /\ cleanup.users # <<>>
    /\ get_retention_period(cleanup.tier[user]) # Unlimited
    /\ IF cleanup.aborted
       THEN cleanup' = [cleanup EXCEPT !.users = Tail(@)]
       ELSE /\ Cardinality(cleanup.raised) < MaxFails
            /\ \E aborted \in BOOLEAN :
                  cleanup' = [cleanup EXCEPT !.users = Tail(@),
                                             !.raised = @ \cup {user},
                                             !.aborted = aborted]
    /\ DeleteFrame
    /\ UNCHANGED <<scans, retention>>

\* lines 145-147: the loop is over, total_archived is returned
CleanupReturn ==
    /\ cleanup.pc = "loop"
    /\ cleanup.users = <<>>
    /\ retention' = [op |-> "cleanup", user |-> "nobody", tier |-> "free",
                     count |-> cleanup.total_archived, rows |-> <<>>]
    /\ cleanup' = NoCleanup
    /\ DeleteFrame
    /\ UNCHANGED scans

\* creates of the three users over a year and some seconds, and the calls of
\* RetentionService
InitRetention ==
    /\ InitStore
    /\ env = "production"
    /\ budget = [scans |-> MaxScans, runs |-> 0, fails |-> 0, lost |-> 0,
                 outages |-> 0,
                 time |-> get_retention_period("premium") * DaySeconds
                              + MaxSeconds,
                 checks |-> 0, vulns |-> 0, requests |-> 0]

NextRetention ==
    \/ ~Pending /\ ~Returning /\ ~Sweeping /\ ScanFrame
          /\ \E u \in RetentionUsers, mode \in {"common"} : CreateScan(u, mode)
    \/ ~Pending /\ ~Returning /\ ~Sweeping /\ ScanFrame
          /\ \E s \in ScanIds : CreateDelay(s)
    \/ ~Pending /\ ~Returning /\ ~Sweeping /\ ScanFrame
          /\ \E s \in ScanIds : CreateEnqueue(s)
    \/ ~Pending /\ ~Returning /\ ~Sweeping /\ ScanFrame
          /\ \E t \in Instants({get_retention_period("free"),
                                get_retention_period("premium")}) : Elapse(t)
    \/ ~Pending /\ ~Returning /\ ~Sweeping
          /\ \E u \in RetentionUsers, tier \in Tiers :
                GetAccessibleScans(u, tier)
    \/ ~Pending /\ ~Returning /\ ~Sweeping
          /\ \E u \in RetentionUsers, tier \in Tiers :
                ArchiveExpiredScans(u, tier)
    \/ ~Pending /\ ~Returning /\ ~Sweeping
          /\ \E u \in RetentionUsers, old_tier, new_tier \in Tiers :
                RestoreScansOnUpgrade(u, old_tier, new_tier)
    \/ ~Pending /\ ~Returning /\ CleanupStart
    \/ ~Pending /\ ~Returning /\ CleanupArchive
    \/ ~Pending /\ ~Returning /\ CleanupRaise
    \/ ~Pending /\ ~Returning /\ CleanupReturn
    \/ RetentionReturn
    \/ ScanFrame /\ Respond

SpecRetention == InitRetention /\ [][NextRetention]_vars

(***************************************************************************)
(* create_scan calls side by side, and delete_scan                         *)
(*                                                                         *)
(* The access check of create_scan awaits its count query, and the row is  *)
(* added and committed after it: other requests take their steps in        *)
(* between. A place of the table that a delete has emptied holds a later   *)
(* row; the task of the deleted row is not followed any further.           *)
(***************************************************************************)
\* lines 43-46 of create_scan: check_scan_access, with its count query
CreateScanCheck(c, u, mode) ==
    /\ creators[c].pc = "idle"
    /\ budget.requests > 0
    /\ budget' = [budget EXCEPT !.requests = @ - 1]
    /\ creators' = [creators EXCEPT ![c] =
          [pc |-> "checked", user |-> u,
           allowed |-> check_scan_access(u, mode).allowed]]
    /\ UNCHANGED <<now, redisUp, nextId, high, normal, jobStatus, scanVars,
                   queueVars, rateVars, tierCheck, admitted, retVars,
                   reqVars, userVars>>

\* lines 48-52: the check did not allow the scan, 403
CreateScanRefuse(c) ==
    /\ creators[c].pc = "checked"
    /\ ~creators[c].allowed
    /\ creators' = [creators EXCEPT ![c] = NoCreator]
    /\ response' = [op |-> "create", user |-> creators[c].user, scan |-> 0,
                    code |-> 403,
                    detail |-> Reason("Daily scan limit reached", "", "", {},
                                      scans_per_day(UserTier(creators[c].user)))]
    /\ UNCHANGED <<now, redisUp, nextId, high, normal, jobStatus, budget, env,
                   scans, creating, task, hist, queueVars, rateVars,
                   tierCheck, admitted, retVars, reqVars, userVars>>

\* lines 54-65: the check allowed the scan; the row is added and committed
CreateScanAdd(c) ==
    /\ creators[c].pc = "checked"
    /\ creators[c].allowed
    /\ \E s \in ScanIds :
          /\ ~scans[s].exists
          /\ creating[s].pc \in {"none", "returned"}
          /\ scans' = [scans EXCEPT ![s] = NewScan(creators[c].user)]
          /\ creating' = [creating EXCEPT ![s] =
                [pc |-> "persisted", user |-> creators[c].user]]
    /\ admitted' = Append(admitted, [user |-> creators[c].user, at |-> now])
    /\ creators' = [creators EXCEPT ![c] = NoCreator]
    /\ UNCHANGED <<now, redisUp, nextId, high, normal, jobStatus, budget, env,
                   task, response, hist, queueVars, rateVars, tierCheck,
                   retVars, reqVars, userVars>>

\* ScanService.delete_scan: get_scan (404 when the user has no such row),
\* then the row is deleted and the delete committed
DeleteScan(s, u) ==
    /\ IF ~get_scan_found(s, u)
       THEN /\ response' = [op |-> "delete", user |-> u, scan |-> s,
                            code |-> 404,
                            detail |-> Reason("Scan not found", "", "", {}, 0)]
            /\ UNCHANGED scans
       ELSE /\ scans' = [scans EXCEPT ![s] = NoScan]
            /\ response' = [op |-> "delete", user |-> u, scan |-> s,
                            code |-> 204, detail |-> NoReason]
    /\ UNCHANGED <<now, env, redisUp, nextId, creating, task, high, normal,
                   jobStatus, hist, budget>>

\* creates and deletes of a free user over a day and some seconds; one create
\* more than the limit of the free tier is asked for
InitAdmission ==
    /\ InitStore
    /\ env = "development"
    /\ budget = [scans |-> MaxScans, runs |-> 0, fails |-> 0, lost |-> 0,
                 outages |-> 0, time |-> DaySeconds + MaxSeconds,
                 checks |-> 0, vulns |-> 0,
                 requests |-> ScanLimitFreeTier + 1]

NextAdmission ==
    \/ ~Pending /\ \E c \in Creators : CreateScanCheck(c, "alice", "common")
    \/ ~Pending /\ \E c \in Creators : CreateScanRefuse(c)
    \/ ~Pending /\ \E c \in Creators : CreateScanAdd(c)
    \/ ~Pending /\ ScanFrame /\ \E s \in ScanIds : CreateRunLocal(s)
    \/ ~Pending /\ ScanFrame /\ \E s \in ScanIds : DeleteScan(s, "alice")
    \/ ~Pending /\ ScanFrame /\ \E t \in Instants({1}) : Elapse(t)
    \/ ScanFrame /\ Respond

SpecAdmission == InitAdmission /\ [][NextAdmission]_vars

(***************************************************************************)
(* Tier changes                                                            *)
(***************************************************************************)
\* WebhookService: checkout.session.completed sets the tier of the user to
\* premium or enterprise, customer.subscription.updated (canceled) and
\* customer.subscription.deleted set it to free; the handler commits
TierChange(u, tier) ==
    /\ tiers[u] # tier
    /\ tiers' = [tiers EXCEPT ![u] = tier]
    /\ UNCHANGED <<now, redisUp, nextId, high, normal, jobStatus, budget,
                   scanVars, queueVars, rateVars, tierVars, retVars, reqVars>>

\* creates of a user while the tier of the user changes and the sweep runs
InitTierChange ==
    /\ InitStore
    /\ env = "production"
    /\ budget = [scans |-> MaxScans, runs |-> 0, fails |-> 0, lost |-> 0,
                 outages |-> 0,
                 time |-> get_retention_period("free") * DaySeconds
                              + MaxSeconds,
                 checks |-> 0, vulns |-> 0, requests |-> 0]

NextTierChange ==
    \/ ~Pending /\ ScanFrame
          /\ \E u \in {"bob"}, mode \in ScanModes : CreateScan(u, mode)
    \/ ~Pending /\ ScanFrame /\ \E s \in ScanIds : CreateDelay(s)
    \/ ~Pending /\ ScanFrame /\ \E s \in ScanIds : CreateEnqueue(s)
    \/ ~Pending /\ ScanFrame
          /\ \E t \in Instants({get_retention_period("free")}) : Elapse(t)
    \/ \E u \in {"bob"}, tier \in Tiers : TierChange(u, tier)
    \/ ~Pending /\ ~Returning /\ CleanupStart
    \/ ~Pending /\ ~Returning /\ CleanupArchive
    \/ ~Pending /\ ~Returning /\ CleanupReturn
    \/ RetentionReturn
    \/ ScanFrame /\ Respond

SpecTierChange == InitTierChange /\ [][NextTierChange]_vars

(***************************************************************************)
(* Properties                                                              *)
(***************************************************************************)
\* the edges of the status graph: queued to running, running to completed or
\* failed, queued or running to cancelled
LegalStatusChange(from, to) ==
    <<from, to>> \in {<<"queued", "running">>, <<"running", "completed">>,
                      <<"running", "failed">>, <<"queued", "cancelled">>,
                      <<"running", "cancelled">>}

\* C1: the persisted status of a job changes only along the edges of the
\* status graph, so a completed, failed or cancelled job keeps its status,
\* whatever creates, worker runs, retries, redeliveries and cancels do.
C1_StatusMovesForward ==
    [][\A s \in ScanIds :
          (scans[s].exists /\ scans'[s].status # scans[s].status)
              => LegalStatusChange(scans[s].status, scans'[s].status)]_vars

\* C2: a job that was cancelled while it was queued is never executed: the
\* engine is not invoked for it and its status stays cancelled.
C2_CancelledQueuedNeverRuns ==
    \A s \in ScanIds :
        hist[s].cancelledQueued
            => ~hist[s].invoked /\ scans[s].status = "cancelled"

\* the number of checks of key k admitted in the seconds lo..hi
RECURSIVE AdmittedIn(_, _, _)
AdmittedIn(k, lo, hi) ==
    IF hi < lo
    THEN 0
    ELSE (IF hi \in RateTimes THEN rlog[k][hi] ELSE 0) + AdmittedIn(k, lo, hi - 1)

\* C3: for a key with a finite limit and window, no window of time holds more
\* than limit admitted checks, also when several checks fall in one second,
\* and a check is denied only while limit admissions lie in its window, so
\* that a check after the window has elapsed is admitted again.
C3_WindowQuota ==
    \A k \in Keys :
        LET info == rate_limit_info(k[2]) IN
        info.limit # Unlimited =>
            /\ \A x \in RateTimes :
                   AdmittedIn(k, x - info.window + 1, x) <= info.limit
            /\ (rlLast.key = k /\ ~rlLast.allowed)
                   => AdmittedIn(k, rlLast.time - info.window + 1, rlLast.time)
                          >= info.limit

\* a step in which cancel_scan answers
CancelAnswers == response = NoResponse /\ response'.op = "cancel"

\* C4: cancel_scan changes a row only when the caller owns it and it is queued
\* or running: it becomes cancelled and completed_at is set; a completed,
\* failed or cancelled row is refused with an error and a row of another user
\* is answered not found, and both leave the table as it was.
C4_CancelContract ==
    [][CancelAnswers =>
          LET s == response'.scan
              u == response'.user
          IN  IF /\ scans[s].exists
                 /\ scans[s].user_id = u
                 /\ scans[s].status \in {"queued", "running"}
              THEN /\ response'.code = 200
                   /\ scans' = [scans EXCEPT ![s].status = "cancelled",
                                             ![s].completed_at = now]
              ELSE /\ scans' = scans
                   /\ response'.code =
                          IF scans[s].exists /\ scans[s].user_id = u
                          THEN 400
                          ELSE 404]_vars

\* a refused cancel of a job that an earlier cancel_scan had cancelled
C4_Witness ==
    /\ response.op = "cancel"
    /\ response.code = 400
    /\ scans[response.scan].status = "cancelled"
    /\ scans[response.scan].completed_at # NoTime

\* the ids dequeue_scan has to return for what was enqueued: the high lane in
\* enqueue order, then the normal lane in enqueue order
LaneIds(lane) ==
    LET sel == SelectSeq(qlog.enq, LAMBDA e : e.lane = lane)
    IN  [i \in 1..Len(sel) |-> sel[i].id]
ExpectedOrder == LaneIds("high") \o LaneIds("normal")

\* C5: when all enqueues come before the dequeues, the dequeues return every
\* high-lane entry before any normal-lane entry and each lane in the order it
\* was enqueued; a dequeue of two empty lanes returns nothing.
C5_PriorityThenFifo ==
    ~qlog.mixed =>
        \A i \in 1..Len(qlog.deq) :
            qlog.deq[i] = IF i <= Len(ExpectedOrder) THEN ExpectedOrder[i] ELSE 0

\* normal, high, normal were enqueued and all three were dequeued
C5_Witness ==
    /\ ~qlog.mixed
    /\ Len(qlog.enq) = 3
    /\ qlog.deq = <<2, 1, 3>>

\* a step in which create_scan raises the 403 of a denied access check
CreateDenied ==
    response = NoResponse /\ response'.op = "create" /\ response'.code = 403

CreatePersistsAndStarts(s) ==
    /\ (~scans[s].exists /\ scans'[s].exists)
           => /\ s = nextId
              /\ nextId' = nextId + 1
              /\ \A x \in ScanIds \ {s} : scans'[x] = scans[x]
              /\ scans'[s].status = "queued"
              /\ scans'[s].user_id = creating'[s].user
    /\ (creating[s].pc # "returned" /\ creating'[s].pc = "returned")
           => /\ response'.code = 201
              /\ response'.scan = s
              /\ response'.user = scans'[s].user_id
    /\ (task[s].pc = "none" /\ task'[s].pc # "none" /\ env = "development")
           => /\ scans'[s].status = "running"
              /\ scans'[s].started_at = now
              /\ task'[s].pc = "pending"

Descriptors(lane, s) == {i \in 1..Len(lane) : lane[i].scan_id = s}

\* a step in which create_scan returns in production
CreateReturnsAsync(s) ==
    /\ creating[s].pc = "delayed"
    /\ creating'[s].pc = "returned"

\* the descriptor of s is pushed on the lane of its owner's tier, at the end
\* that is popped last, and the status record of s is queued
EnqueuedByTier(s) ==
    /\ IF UserTier(scans[s].user_id) \in {"premium", "enterprise"}
       THEN /\ high' = <<[scan_id |-> s, user_id |-> scans[s].user_id,
                          enqueued_at |-> now]>> \o high
            /\ normal' = normal
       ELSE /\ normal' = <<[scan_id |-> s, user_id |-> scans[s].user_id,
                            enqueued_at |-> now]>> \o normal
            /\ high' = high
    /\ Cardinality(Descriptors(high', s)) + Cardinality(Descriptors(normal', s)) = 1
    /\ jobStatus'[s] = "queued"
    /\ \A tier \in Tiers :
           queue_name(tier) = IF tier = "free" THEN "normal" ELSE "high"

C9_ThirdAttemptCompletes ==
    \A s \in ScanIds :
        /\ hist[s].attempts = <<"fail", "fail">> => task[s].pc # "done"
        /\ hist[s].attempts = <<"fail", "fail", "ok">>
               => scans[s].status = "completed" /\ task[s].pc = "done"

\* two failed runs, then the run of the second retry succeeded
C9_Witness ==
    \E s \in ScanIds :
        /\ hist[s].attempts = <<"fail", "fail", "ok">>
        /\ task[s].retries = 2
        /\ scans[s].status = "completed"

\* C10: across the runs of one job started_at keeps the time of the first
\* run, and the duration of a completed job is its completion time minus
\* that first start.
C10_StartedAtKept ==
    \A s \in ScanIds :
        (scans[s].exists /\ hist[s].firstStart # NoTime)
            => /\ scans[s].started_at = hist[s].firstStart
               /\ scans[s].status = "completed"
                      => scans[s].duration_seconds
                             = scans[s].completed_at - hist[s].firstStart

\* the runs of s that have ended all failed
AllFailed(s) == \A i \in 1..Len(hist[s].attempts) : hist[s].attempts[i] = "fail"

\* C11: a job whose every run fails is run at most 1 + max_retries times;
\* after the last of them no run starts and the job is failed with an error
\* message.
C11_RetriesBounded ==
    \A s \in ScanIds :
        AllFailed(s) =>
            /\ Len(hist[s].attempts) <= MaxRetries + 1
            /\ Len(hist[s].attempts) = MaxRetries + 1
                   => /\ task[s].pc = "done"
                      /\ task[s].retries = MaxRetries
                      /\ scans[s].status = "failed"
                      /\ scans[s].error_message

\* four runs failed while the engine could have failed a fifth time
C11_Witness ==
    \E s \in ScanIds :
        /\ AllFailed(s)
        /\ Len(hist[s].attempts) = MaxRetries + 1
        /\ budget.fails > 0
        /\ budget.runs > 0
        /\ scans[s].status = "failed"

(***************************************************************************)
(* One job under fair scheduling, in development and in production         *)
(***************************************************************************)
\* asyncio.create_task of create_scan: the task lives in the memory of the web
\* process and nothing else holds it; when that process ends, the task ends
\* with it and nothing starts it again
ProcessLost(s) ==
    /\ task[s].kind = "local"
    /\ task[s].pc = "pending" \/ Running(task[s])
    /\ budget.lost > 0
    /\ budget' = [budget EXCEPT !.lost = @ - 1]
    /\ task' = [task EXCEPT ![s].pc = "lost", ![s].error = "none"]
    /\ UNCHANGED <<now, env, redisUp, scans, nextId, creating, high, normal,
                   jobStatus, response, hist>>

\* one scan; workers have runs enough for every retry and every redelivery
InitLive ==
    /\ InitStore
    /\ budget = [scans |-> 1, runs |-> MaxRetries + 1 + MaxLost,
                 fails |-> MaxFails, lost |-> MaxLost, outages |-> 0,
                 time |-> 0, checks |-> 0, vulns |-> 0, requests |-> 0]

\* the steps that the event loop, the broker and the workers take by themselves
LiveStep ==
    /\ ~Pending
    /\ ScanFrame
    /\ \E s \in ScanIds :
          \/ CreateRunLocal(s)
          \/ CreateDelay(s)
          \/ CreateEnqueue(s)
          \/ WorkerStart(s)
          \/ WorkerInvoke(s)
          \/ \E vulnerabilities \in EngineResults(budget.vulns) :
                WorkerEngineOk(s, vulnerabilities)
          \/ WorkerReturn(s)
          \/ WorkerExcept(s)

NextLive ==
    \/ ~Pending /\ ScanFrame
          /\ \E u \in Users, mode \in ScanModes : CreateScan(u, mode)
    \/ ~Pending /\ ScanFrame /\ \E s \in ScanIds : CreateRunLocal(s)
    \/ ~Pending /\ ScanFrame /\ \E s \in ScanIds : CreateDelay(s)
    \/ ~Pending /\ ScanFrame /\ \E s \in ScanIds : CreateEnqueue(s)
    \/ ~Pending /\ ScanFrame /\ \E s \in ScanIds, u \in Users : CancelScan(s, u)
    \/ ~Pending /\ ScanFrame /\ \E s \in ScanIds : WorkerStart(s)
    \/ ~Pending /\ ScanFrame /\ \E s \in ScanIds : WorkerInvoke(s)
    \/ ~Pending /\ ScanFrame
          /\ \E s \in ScanIds, vulnerabilities \in EngineResults(budget.vulns) :
                WorkerEngineOk(s, vulnerabilities)
    \/ ~Pending /\ ScanFrame
          /\ \E s \in ScanIds, cause \in EngineErrors : WorkerEngineFail(s, cause)
    \/ ~Pending /\ ScanFrame /\ \E s \in ScanIds : WorkerReturn(s)
    \/ ~Pending /\ ScanFrame /\ \E s \in ScanIds : WorkerExcept(s)
    \/ ~Pending /\ ScanFrame /\ \E s \in ScanIds : WorkerLost(s)
    \/ ~Pending /\ ScanFrame /\ \E s \in ScanIds : ProcessLost(s)
    \/ ScanFrame /\ Respond

\* answers are sent, and a step of the event loop, the broker or a worker
\* that can be taken again and again is taken in the end: those run in their
\* own tasks and processes, whatever calls the clients go on making
SpecLive ==
    /\ InitLive
    /\ [][NextLive]_vars
    /\ SF_vars(LiveStep)
    /\ WF_vars(ScanFrame /\ Respond)

ProductionJobEnds ==
    \A s \in ScanIds :
        (scans[s].exists /\ env = "production")
            ~> scans[s].status \in {"completed", "failed", "cancelled"}

\* a step in which dispatch answers a request
DispatchAnswers == budget'.checks < budget.checks

\* C13: the quota check fails open: a request that finds the middleware
\* without a Redis client, or during whose check a Redis command raises, is
\* answered by the endpoint (never 429), and the check's answer is allowed.
C13_FailsOpen ==
    [][(DispatchAnswers /\ (~redis_client \/ ~redisUp')) =>
          /\ reply'.code = 200
          /\ reply'.checked => rlLast'.allowed]_vars

\* a request was admitted after zadd raised, the third command of its check
C13_Witness ==
    /\ reply.checked
    /\ reply.code = 200
    /\ ~redisUp
    /\ redisCalls = <<"zremrangebyscore", "zcard", "zadd">>
    /\ rlLast.remaining = FreeLimit

\* C14: a request of a user on the enterprise tier, or of an owner whatever
\* the tier, is always admitted, and no Redis command is issued and no window
\* changes for it.
C14_UnlimitedAndOwnersPass ==
    [][(DispatchAnswers /\ (reply'.tier = "enterprise" \/ reply'.user = "root")) =>
          /\ reply'.code = 200
          /\ ~reply'.headers.present
          /\ redisCalls' = <<>>
          /\ windows' = windows]_vars

\* an owner on the free tier passed while alice's free window was full
C14_Witness ==
    /\ reply.user = "root"
    /\ reply.tier = "free"
    /\ reply.code = 200
    /\ redis_client
    /\ redisUp
    /\ redisCalls = <<>>
    /\ Cardinality(windows[<<"alice", "free">>]) = FreeLimit

\* C17: a response carries the three X-RateLimit headers exactly when its
\* request was checked on the free or the premium tier, admitted or denied
\* with 429; the limit is the tier's and the remaining count is not negative;
\* a response to an enterprise user or to an owner carries none.
C17_HeadersWhenChecked ==
    reply # NoReply =>
        /\ reply.headers.present
               <=> (reply.checked /\ reply.tier \in {"free", "premium"})
        /\ reply.headers.present
               => /\ reply.headers.limit =
                         (IF reply.tier = "free" THEN FreeLimit ELSE PremiumLimit)
                  /\ reply.headers.remaining >= 0
                  /\ reply.headers.reset = rlLast.reset_time
                  /\ reply.code \in {200, 429}
        /\ reply.code = 429 => reply.checked /\ reply.tier \in {"free", "premium"}
        /\ reply.user = "root" => ~reply.checked

\* a request denied with 429 carries the headers, with nothing remaining
C17_Witness ==
    /\ reply.code = 429
    /\ reply.headers.present
    /\ reply.headers.remaining = 0
    /\ reply.headers.limit = FreeLimit

(***************************************************************************)
(* The checks of TierService                                               *)
(***************************************************************************)
\* the rows of u created in the last 24 hours
CreatedInLastDay(u) ==
    {s \in ScanIds : /\ scans[s].exists
                     /\ scans[s].user_id = u
                     /\ now - scans[s].created_at <= DaySeconds}

\* C15: the scan-limit check admits a free user who is no owner exactly when
\* fewer than SCAN_LIMIT_FREE_TIER of the user's scans were created in the
\* last 24 hours, older scans not counting, and it never blocks a premium or
\* an enterprise user
C15_ScanLimitCountsLastDay ==
    (tierCheck.op = "limit" /\ ~is_owner_email(tierCheck.user)) =>
        IF UserTier(tierCheck.user) = "free"
        THEN tierCheck.answer.allowed <=>
                 Cardinality(CreatedInLastDay(tierCheck.user))
                     < ScanLimitFreeTier
        ELSE tierCheck.answer.allowed

\* a free user with a scan older than a day and a scan of the last day is
\* admitted by the check
C15_Witness ==
    /\ tierCheck.op = "limit"
    /\ tierCheck.user = "alice"
    /\ tierCheck.answer.allowed
    /\ \E s, r \in ScanIds :
          /\ scans[s].exists /\ scans[s].user_id = "alice"
          /\ scans[r].exists /\ scans[r].user_id = "alice"
          /\ now - scans[s].created_at > DaySeconds
          /\ now - scans[r].created_at <= DaySeconds

\* the allow-lists as the claim states them
ClaimedModes(tier) ==
    CASE tier = "free" -> {"common"}
      [] tier = "premium" -> {"common", "full", "stealth", "aggressive"}
      [] OTHER -> AllScanModes

\* C16: check_scan_mode allows a mode exactly when it is in the allow-list
\* of the tier - free: only common; premium: common, full, stealth,
\* aggressive; enterprise: every mode - and the reason of a denial names the
\* tier and lists the allowed modes
C16_ModeAllowLists ==
    (tierCheck.op = "mode" /\ ~is_owner_email(tierCheck.user)) =>
        LET tier == UserTier(tierCheck.user) IN
        /\ tierCheck.answer.allowed <=> tierCheck.mode \in ClaimedModes(tier)
        /\ ~tierCheck.answer.allowed =>
              /\ tierCheck.answer.reason.tier = tier
              /\ tierCheck.answer.reason.modes = ClaimedModes(tier)

(***************************************************************************)
(* RetentionService                                                        *)
(***************************************************************************)
\* a call of archive_expired_scans returns
ArchiveReturns == retention = NoRetention /\ retention'.op = "archive"

\* the rows a step deletes
DeletedRows == {s \in ScanIds : scans[s].exists /\ ~scans'[s].exists}

\* C18: on a tier with a finite period the sweep of a user deletes exactly the
\* user's rows created before now minus the period, leaves the user's other
\* rows and every other user's rows as they are, and returns the number of
\* rows deleted; on an unlimited tier it deletes nothing and returns 0
C18_SweepDeletesExpired ==
    [][ArchiveReturns =>
          LET u == retention'.user
              days == get_retention_period(retention'.tier)
          IN
          /\ DeletedRows =
                IF days = Unlimited THEN {}
                ELSE {s \in ScanIds :
                        /\ scans[s].exists
                        /\ scans[s].user_id = u
                        /\ scans[s].created_at < now - days * DaySeconds}
          /\ \A s \in ScanIds \ DeletedRows : scans'[s] = scans[s]
          /\ retention'.count = Cardinality(DeletedRows)
          /\ days = Unlimited => retention'.count = 0]_vars

\* a sweep has deleted a row and has left a row of the same user and nothing
\* else in the table: the row that is left was inside the period
C18_Witness ==
    /\ retention.op = "archive"
    /\ retention.count = 1
    /\ \E s \in ScanIds : scans[s].exists /\ scans[s].user_id = retention.user
    /\ nextId > MaxScans

\* C19: get_accessible_scans returns exactly the user's rows created at or
\* after now minus the period of the tier, newest first, and every row of the
\* user when the period is unlimited
C19_AccessibleWithinPeriod ==
    retention.op = "accessible" =>
        LET q == retention.rows
            days == get_retention_period(retention.tier)
        IN
        /\ \A i, j \in 1..Len(q) : i # j => q[i] # q[j]
        /\ {q[i] : i \in 1..Len(q)} =
              {s \in ScanIds :
                 /\ scans[s].exists
                 /\ scans[s].user_id = retention.user
                 /\ days # Unlimited =>
                       scans[s].created_at >= now - days * DaySeconds}
        /\ \A i \in 1..(Len(q) - 1) :
              scans[q[i]].created_at >= scans[q[i + 1]].created_at

\* two rows of a user, created at different times, are both returned under a
\* finite period
C19_Witness ==
    /\ retention.op = "accessible"
    /\ retention.tier # "enterprise"
    /\ Len(retention.rows) = 2
    /\ scans[retention.rows[1]].created_at > scans[retention.rows[2]].created_at

\* the loop of cleanup_all_expired_scans has taken a step
CleanupSteps == cleanup.pc = "loop" /\ cleanup'.pc = "loop" /\ cleanup' # cleanup

\* the loop of cleanup_all_expired_scans is over
CleanupOver == cleanup.pc = "loop" /\ cleanup.users = <<>>

\* C20: a failure while one user is swept does not end cleanup_all: every
\* other user is still swept under the user's own tier, and the total that is
\* returned is the sum of the counts of the users swept
C20_FailureIsIsolated ==
    [][/\ CleanupSteps =>
             cleanup'.total_archived - cleanup.total_archived
                 = Cardinality(DeletedRows)
       /\ CleanupOver' =>
             (RetentionUsers \ cleanup'.raised) \subseteq cleanup'.swept
       /\ (CleanupOver /\ retention'.op = "cleanup") =>
             retention'.count = cleanup.total_archived]_vars

\* when the failed statement leaves the transaction of the session usable,
\* every other user is swept
OthersSweptWhenNotAborted ==
    (CleanupOver /\ ~cleanup.aborted) =>
        (RetentionUsers \ cleanup.raised) \subseteq cleanup.swept

\* the rows that were created and are no longer in the table
RemovedRows == {s \in ScanIds : s < nextId /\ ~scans[s].exists}

\* C21: a row removed by a sweep never comes back, and a call of
\* restore_scans_on_upgrade restores nothing: it returns 0 and leaves the
\* table scans as it is
C21_RemovedStaysRemoved ==
    [][/\ RemovedRows \subseteq RemovedRows'
       /\ (retention = NoRetention /\ retention'.op = "restore") =>
             retention'.count = 0 /\ scans' = scans]_vars

\* a row of the user was removed by a sweep, and the user's upgrade to
\* premium has just been answered
C21_Witness ==
    /\ retention.op = "restore"
    /\ retention.tier = "premium"
    /\ \E s \in RemovedRows : creating[s].user = retention.user

(***************************************************************************)
(* QueueService.cancel_job                                                 *)
(***************************************************************************)
\* the status records a step writes "cancelled" into
NewlyCancelled ==
    {s \in JobIds : jobStatus[s] # "cancelled" /\ jobStatus'[s] = "cancelled"}

\* a dequeue_scan returns
DequeueReturns == Len(qlog'.deq) = Len(qlog.deq) + 1

\* C22: cancel_job writes cancelled into the status record of the job and
\* nothing else: both lanes keep their entries, and a dequeue returns the
\* oldest entry of the first lane that is not empty whatever the status
\* record of that entry says
C22_CancelLeavesEntry ==
    [][/\ NewlyCancelled # {} =>
             /\ high' = high
             /\ normal' = normal
             /\ \A s \in JobIds \ NewlyCancelled : jobStatus'[s] = jobStatus[s]
       /\ (DequeueReturns /\ high # <<>>) =>
             qlog'.deq[Len(qlog'.deq)] = high[Len(high)].scan_id
       /\ (DequeueReturns /\ high = <<>> /\ normal # <<>>) =>
             qlog'.deq[Len(qlog'.deq)] = normal[Len(normal)].scan_id]_vars

\* job 1 was cancelled while its entry was in a lane; the entry is still
\* there, behind a newer one
C22_Witness ==
    /\ jobStatus[1] = "cancelled"
    /\ Len(normal) = 2
    /\ normal[2].scan_id = 1

(***************************************************************************)
(* Failures of a run of the task                                           *)
(***************************************************************************)
\* C23: a run that fails because the output of the engine cannot be parsed
\* fails for good: the job is marked failed and no retry of the task is
\* scheduled
C23_ParseFailureNotRetried ==
    [][\A s \in ScanIds :
          (task[s].pc = "except" /\ task[s].error = "parse"
              /\ task'[s].pc # "except") =>
                 /\ scans'[s].status = "failed"
                 /\ task'[s].pc # "pending"
                 /\ task'[s].retries = task[s].retries]_vars

\* C24: that the Redis of the lanes and status records does not answer is
\* never an error of a call and never changes what is persisted for a job:
\* create_scan and cancel_scan do not end with an error of the store, and a
\* run whose engine call returned and whose row was written completed ends
\* with the row completed and without a retry, also when its status record
\* cannot be written
C24_StoreOutageHarmless ==
    [][/\ (response = NoResponse /\ response'.op \in {"create", "cancel"}) =>
             response'.code # 500
       /\ \A s \in ScanIds :
             (task[s].pc = "setdone" /\ task'[s].pc # "setdone") =>
                 /\ task'[s].pc = "done"
                 /\ scans'[s].status = "completed"
       /\ \A s \in ScanIds :
             (scans[s].status = "completed" /\ task[s].pc = "except") =>
                 scans'[s].status = "completed"]_vars

(***************************************************************************)
(* Concurrent quota checks                                                 *)
(***************************************************************************)
\* C25: the purge, the count and the add of a quota check are separate
\* commands on the shared window store: a check that counted fewer than limit
\* entries is admitted whatever other checks added since, so two concurrent
\* checks of one key that both counted limit - 1 are both admitted
C25_CountedBelowLimitAdmitted ==
    \A p \in Servers :
        LET c == checker[p] IN
        (c.pc = "done" /\ c.current_count < rate_limit_info(c.key[2]).limit)
            => c.answer.allowed

\* both processes counted limit - 1 entries of the same key, at different
\* seconds, both were admitted, and the window of the later one holds more
\* than limit admitted requests
C25_Witness ==
    LET a == checker[1]
        b == checker[2]
        info == rate_limit_info("free")
    IN  /\ a.pc = "done" /\ b.pc = "done"
        /\ a.key = b.key
        /\ a.current_count = info.limit - 1
        /\ b.current_count = info.limit - 1
        /\ a.answer.allowed /\ b.answer.allowed
        /\ a.now < b.now
        /\ \A x \in RateTimes : rlog[a.key][x] <= 1
        /\ AdmittedIn(a.key, b.now - info.window + 1, b.now) > info.limit

(***************************************************************************)
(* The failure handler of the worker                                       *)
(***************************************************************************)
\* the attempts whose failure this step hands to the retry mechanism
FailuresRaised ==
    {s \in ScanIds : task[s].pc = "except" /\ task'[s].pc # "except"}

\* the row of a failed attempt at the moment the failure is raised again
FailurePersisted(s) ==
    /\ scans'[s].status = "failed"
    /\ scans'[s].error_message
    /\ scans'[s].completed_at = now

EngineReturned == {s \in ScanIds : task[s].pc = "exec" /\ task'[s].pc = "setdone"}

\* the vulnerabilities of the persisted result that carry the label
Carrying(row, label) ==
    {i \in DOMAIN row.report_json.vulnerabilities :
        row.report_json.vulnerabilities[i] = label}

\* C27: on a successful execution the row becomes completed, holds the
\* structured result and the text report, vulnerabilities_found is the number
\* of reported vulnerabilities and each of critical/high/medium/low_count is
\* the number of vulnerabilities that carry that severity label
C27_CompletedWithCounts ==
    [][\A s \in EngineReturned :
          LET row == scans'[s] IN
          /\ row.status = "completed"
          /\ ~row.report_json.null
          /\ ~row.report_text.null
          /\ row.vulnerabilities_found = Len(row.report_json.vulnerabilities)
          /\ row.critical_count = Cardinality(Carrying(row, "critical"))
          /\ row.high_count = Cardinality(Carrying(row, "high"))
          /\ row.medium_count = Cardinality(Carrying(row, "medium"))
          /\ row.low_count = Cardinality(Carrying(row, "low"))]_vars

\* a completed row whose result has two vulnerabilities of different
\* severities, one of them a label that is not counted
C27_Witness ==
    \E s \in ScanIds :
        /\ scans[s].status = "completed"
        /\ task[s].pc = "done"
        /\ scans[s].vulnerabilities_found = 2
        /\ scans[s].high_count = 1
        /\ scans[s].critical_count + scans[s].medium_count
               + scans[s].low_count = 0
        /\ ~scans[s].report_json.null

(***************************************************************************)
(* The order of the two checks of check_scan_access                        *)
(***************************************************************************)
\* C28: check_scan_access makes the mode check first: when the mode is denied
\* it returns that denial and no query on the table scans was executed; when
\* the mode is allowed its answer is the answer of the limit check
C28_ModeCheckFirst ==
    tierCheck.op = "access" =>
        LET mode_check == check_scan_mode(tierCheck.user, tierCheck.mode)
            limit_check == check_scan_limit(tierCheck.user)
        IN  /\ ~mode_check.allowed =>
                  /\ tierCheck.answer = mode_check
                  /\ tierCheck.queries = 0
            /\ mode_check.allowed => tierCheck.answer = limit_check

\* a free user at the daily limit asks for a mode the tier does not allow:
\* both checks would deny, the answer is the denial of the mode and the table
\* was not read
C28_Witness ==
    /\ tierCheck.op = "access"
    /\ ~check_scan_mode(tierCheck.user, tierCheck.mode).allowed
    /\ ~check_scan_limit(tierCheck.user).allowed
    /\ tierCheck.answer.reason.text = "Scan mode not allowed for tier"
    /\ tierCheck.queries = 0

(***************************************************************************)
(* The reset time of a denial                                              *)
(***************************************************************************)
\* this step is a quota check of the key of the last answer
ChecksSameKey ==
    /\ budget'.checks = budget.checks - 1
    /\ reply'.checked
    /\ rlLast'.key = rlLast.key
    /\ rlLast.key \in Keys

\* the answer of this step is a denial that gives the oldest entry left in
\* the window, plus the window, as its reset time
ResetIsOldestPlusWindow ==
    LET k == rlLast'.key IN
    (budget'.checks = budget.checks - 1 /\ reply'.checked /\ ~rlLast'.allowed)
        => /\ windows'[k] # {}
           /\ rlLast'.reset_time =
                  Oldest(windows'[k]) + rate_limit_info(k[2]).window

\* C29 as it is stated: a denial returns the oldest entry of the purged
\* window plus the window as resetAt, and the next check of the subject is
\* denied at every time before resetAt and admitted at resetAt
C29_DeniedUntilReset ==
    [][/\ ResetIsOldestPlusWindow
       /\ (ChecksSameKey /\ ~rlLast.allowed) =>
              /\ now < rlLast.reset_time => ~rlLast'.allowed
              /\ now = rlLast.reset_time => rlLast'.allowed]_vars

\* C29, amended: a denial returns the oldest entry of the purged window plus
\* the window as resetAt; the next check of the subject, when the store
\* answers it, is denied at every time before resetAt, and is admitted at
\* resetAt when the window holds no more than limit entries
C29_DeniedUntilResetWhenStoreAnswers ==
    [][/\ ResetIsOldestPlusWindow
       /\ (ChecksSameKey /\ ~rlLast.allowed /\ redisUp') =>
              /\ now < rlLast.reset_time => ~rlLast'.allowed
              /\ (/\ now = rlLast.reset_time
                  /\ Cardinality(windows[rlLast.key])
                         <= rate_limit_info(rlLast.key[2]).limit)
                     => rlLast'.allowed]_vars

\* two admissions in the seconds 0 and 1, two denials before the reset time
\* 0 + window, and the admission of the check at that time
C29_Witness ==
    LET k == <<"alice", "free">>
        info == rate_limit_info("free")
    IN  /\ budget.checks = MaxResetChecks - 5
        /\ budget.outages = MaxOutages
        /\ redisUp
        /\ rlLast.key = k
        /\ rlLast.allowed
        /\ rlLast.time = 0 + info.window
        /\ rlog[k][0] = 1
        /\ rlog[k][0 + info.window] = 1
        /\ AdmittedIn(k, 0, 0 + info.window) = info.limit + 1
        /\ redisCalls = CheckCommands(FALSE)

(***************************************************************************)
(* The remaining quota of an admission                                     *)
(***************************************************************************)
\* this step is a quota check that the store answered, in a run in which the
\* store has answered every command, and its answer is an admission
AdmittedByCount ==
    /\ budget'.checks = budget.checks - 1
    /\ budget'.outages = MaxOutages
    /\ redisUp'
    /\ reply'.checked
    /\ rlLast'.allowed

\* C30: an admission returns remaining = limit - c - 1, where c is the number
\* of admitted requests of the subject that are still inside the window; over
\* consecutive admissions without expiry remaining goes down by exactly one,
\* and it is 0 on the limit-th admitted request
C30_RemainingCountsAdmitted ==
    [][AdmittedByCount =>
          LET k == rlLast'.key
              info == rate_limit_info(k[2])
              c == AdmittedIn(k, now - info.window + 1, now)
          IN  /\ rlLast'.remaining = info.limit - c - 1
              /\ (/\ rlLast.allowed
                  /\ rlLast.key = k
                  /\ zremrangebyscore(windows[k], 0, now - info.window)
                         = windows[k])
                     => rlLast'.remaining = rlLast.remaining - 1
              /\ c + 1 = info.limit => rlLast'.remaining = 0]_vars

(***************************************************************************)
(* What a denial leaves in the window                                      *)
(***************************************************************************)
\* this step is a quota check whose answer is a denial
DenialStep ==
    /\ budget'.checks = budget.checks - 1
    /\ reply'.checked
    /\ ~rlLast'.allowed

\* C31: a denied quota check records nothing: it only purges the expired
\* entries of the window of its key, and a denial that follows a denial of the
\* same key returns the same resetAt
C31_DenialRecordsNothing ==
    [][DenialStep =>
          LET k == rlLast'.key
              info == rate_limit_info(k[2])
          IN  /\ windows'[k] \subseteq windows[k]
              /\ \A x \in windows[k] \ windows'[k] : x <= now - info.window
              /\ \A other \in Keys \ {k} : windows'[other] = windows[other]
              /\ rlog' = rlog
              /\ (~rlLast.allowed /\ rlLast.key = k)
                     => rlLast'.reset_time = rlLast.reset_time]_vars

\* the second of two denials of a subject whose window is full: the window
\* still holds the two admitted requests only and the reset time is that of
\* the first denial
C31_Witness ==
    LET k == <<"alice", "free">>
        info == rate_limit_info("free")
    IN  /\ budget.checks = MaxResetChecks - (info.limit + 2)
        /\ budget.outages = MaxOutages
        /\ ~rlLast.allowed
        /\ rlLast.key = k
        /\ redisCalls = CheckCommands(TRUE)
        /\ AdmittedIn(k, 0, MaxRateTime) = info.limit
        /\ Cardinality(windows[k]) = info.limit
        /\ rlLast.reset_time = Oldest(windows[k]) + info.window
        /\ rlLast.time > Oldest(windows[k]) + 1

(***************************************************************************)
(* The quota check and the endpoint                                        *)
(***************************************************************************)
\* C32: when the endpoint handler has run for a request that is authenticated
\* as a user who is no owner, on a tier with a finite limit, on a path that is
\* not skipped, while the middleware holds a Redis client, the quota check of
\* that user and tier was made on the request before
C32_CheckedBeforeHandler ==
    (/\ request.pc = "handled"
     /\ ~skip_paths(request.path)
     /\ request.user_id \in Subjects
     /\ ~is_owner_email(request.user_id)
     /\ rate_limit_info(request.user_tier).limit # Unlimited
     /\ redis_client)
        => request.checked

(***************************************************************************)
(* Several workers on the lanes                                            *)
(***************************************************************************)
\* in how many places the job s is: entries of the lanes and workers that
\* got it from a dequeue
Copies(s) ==
    Cardinality({i \in DOMAIN high : high[i].scan_id = s})
    + Cardinality({i \in DOMAIN normal : normal[i].scan_id = s})
    + Cardinality({w \in Workers : dequeuer[w].result = s})

\* a dequeue_scan call returns the job s
Returned(s) == \E w \in Workers : /\ dequeuer[w].pc = "return"
                                   /\ dequeuer[w].result = s

\* no entry is returned by two dequeue calls
ReturnedAtMostOnce == \A s \in JobIds : Copies(s) <= 1

\* C33 as it is stated: no entry is returned by two dequeue calls, and every
\* entry of a lane is returned in the end when the workers keep dequeuing
C33_EveryEntryReturnedOnce ==
    /\ []ReturnedAtMostOnce
    /\ \A s \in JobIds :
          (s \in IdsIn(high) \cup IdsIn(normal)) ~> Returned(s)

\* C33, amended: no entry is returned by two dequeue calls; when the workers
\* keep dequeuing every entry of the high lane is returned in the end, and
\* every entry of the normal lane is returned in the end unless the high lane
\* is found with entries again and again
C33_ReturnedOnceHighFirst ==
    /\ []ReturnedAtMostOnce
    /\ \A s \in JobIds : (s \in IdsIn(high)) ~> Returned(s)
    /\ \A s \in JobIds :
          \/ []<>(high # <<>>)
          \/ (s \in IdsIn(normal)) ~> Returned(s)

\* two workers are returning two different jobs at once, one of each lane,
\* and a third job still waits in the normal lane
C33_Witness ==
    /\ \A w \in Workers : dequeuer[w].pc = "return" /\ dequeuer[w].result # 0
    /\ Cardinality(HeldIds) = Cardinality(Workers)
    /\ normal # <<>>
    /\ high = <<>>

(***************************************************************************)
(* Tier changes and the decisions that read the tier                       *)
(***************************************************************************)
\* the sweep deals with the next user of its list
SweepsUser ==
    /\ cleanup.pc = "loop"
    /\ cleanup'.pc = "loop"
    /\ cleanup'.swept # cleanup.swept

\* a create is answered with a refusal, or a row is added
Refused == response = NoResponse /\ response'.op = "create"
                                /\ response'.code = 403
Admitted == nextId' = nextId + 1

\* C34: the decisions read the tier the user has when they are made: a
\* sweep deletes for each user the rows that are older than the retention
\* period of the tier the user has at that step, also when the tier changed
\* after the sweep began; a create is refused only with a reason of the tier
\* the user has then, and admitted only when that tier allows it
C34_TierReadAtDecision ==
    [][
        /\ SweepsUser =>
             LET user == Head(cleanup.users)
             IN  scans' = archive_expired_scans(user, UserTier(user)).scans
        /\ Refused =>
             \E mode \in ScanModes :
                response'.detail = check_scan_access(response'.user, mode).reason
        /\ Admitted =>
             \E mode \in ScanModes :
                check_scan_access(scans'[nextId].user_id, mode).allowed
      ]_vars

(***************************************************************************)
(* The daily limit under creates side by side and deletes                  *)
(***************************************************************************)
\* the creates of u that were admitted in the 24 hours that begin at t
AdmittedInSpan(u, t) ==
    {i \in DOMAIN admitted : /\ admitted[i].user = u
                             /\ admitted[i].at >= t
                             /\ admitted[i].at < t + DaySeconds}

RecordOf(status) == IF status = "running" THEN "processing" ELSE status

\* no create_scan call and no run of the task is under way for the scan; a
\* cancel_scan is one step
NothingInFlight(s) ==
    /\ creating[s].pc \in {"none", "returned", "raised"}
    /\ ~Running(task[s])

Outcome(a) == <<a.allowed, a.remaining, a.reset_time>>

\* the outcome at now that follows from one window alone: the timestamps
\* the subject's own earlier checks under the tier left in it
OwnOutcome(set, tier) ==
    LET info == rate_limit_info(tier)
        inside == {x \in set : x > now - info.window}
    IN  IF info.limit = Unlimited THEN <<TRUE, 999999, 0>>
        ELSE IF Cardinality(inside) >= info.limit
        THEN <<FALSE, 0, Oldest(inside) + info.window>>
        ELSE <<TRUE, info.limit - Cardinality(inside) - 1, now + info.window>>

\* the outcome of a check the store did not answer
OutageOutcome(tier) ==
    <<TRUE, rate_limit_info(tier).limit, now + rate_limit_info(tier).window>>

\* C37: the quota state is kept apart for each subject: a check of a
\* subject under a tier changes no window and no record of any other
\* subject or tier, and its outcome (allowed, remaining, resetAt) follows
\* from the window of the subject's own key and the clock alone (or is the
\* outcome of a check the store did not answer), so it is the same
\* whatever the other subjects did in between
C37_QuotaIsolatedPerSubject ==
    [][DispatchAnswers =>
          LET k == <<reply'.user, reply'.tier>> IN
          /\ \A other \in Keys \ {k} : /\ windows'[other] = windows[other]
                                        /\ rlog'[other] = rlog[other]
          /\ reply'.checked =>
                /\ rlLast'.key = k
                /\ Outcome(rlLast') \in {OwnOutcome(windows[k], reply'.tier),
                                         OutageOutcome(reply'.tier)}]_vars

\* alice's first check under the free tier, answered after two checks of
\* bob under the free tier were admitted: it leaves alice the whole limit
\* less one
C37_Witness ==
    /\ reply.user = "alice"
    /\ reply.tier = "free"
    /\ reply.checked
    /\ rlLast.key = <<"alice", "free">>
    /\ rlLast.allowed
    /\ rlLast.remaining = FreeLimit - 1
    /\ Cardinality(windows[<<"bob", "free">>]) = 2
    /\ redisCalls = CheckCommands(FALSE)

(***************************************************************************)
(* What the windows hold                                                   *)
(***************************************************************************)
\* the timestamps of the key k that have not left the window of its tier
Unexpired(k) ==
    {x \in windows[k] : x > now - rate_limit_info(k[2]).window}

\* C38: with the checks made one after the other, no key of a tier with a
\* limit ever holds more unexpired timestamps than the limit, and a
\* timestamp enters the window of a key only as the time of a check of that
\* key that is answered allowed
C38_WindowWithinLimit ==
    /\ [](\A k \in Keys :
              rate_limit_info(k[2]).limit # Unlimited =>
                  Cardinality(Unexpired(k)) <= rate_limit_info(k[2]).limit)
    /\ [][\A k \in Keys : \A t \in windows'[k] \ windows[k] :
              /\ t = now
              /\ rlLast'.key = k
              /\ rlLast'.time = now
              /\ rlLast'.allowed]_vars

\* the window of alice's free key holds as many unexpired timestamps as
\* the limit, and the check that found it so was denied
C38_Witness ==
    /\ Cardinality(Unexpired(<<"alice", "free">>)) = FreeLimit
    /\ rlLast.key = <<"alice", "free">>
    /\ ~rlLast.allowed
    /\ rlLast.time = now
====
